---------------------------- MODULE Spec2Model ----------------------------
(***************************************************************************)
(* A model of the core of the netstack Stack (pkg/tcpip/stack/stack.go):   *)
(* the NIC map, the route table and the locks that guard them.             *)
(*                                                                         *)
(* Two specifications share the state:                                     *)
(*   Spec      every Stack method is one atomic step (a sequential caller) *)
(*   SpecConc  threads run the methods one lock operation at a time        *)
(***************************************************************************)
EXTENDS Integers, Sequences, FiniteSets, TLC

(***************************************************************************)
(* Bounds and input universes.                                             *)
(***************************************************************************)
\* Longest route table the model builds.
MaxRoutes == 3
\* Longest table handed to SetRouteTable / carried by a loaded stack.
MaxSetLen == 2
\* Cap of the NIC id generator (an int32 in the code).
MaxNICIDGen == 1
\* As far as the callers of NextNICID take the generator.
MaxNextNICID == 2

\* NIC ids callers use; 0 is the invalid id.
NICIDs == {1, 2}

\* Destination subnets: network id and prefix length.
Subnets ==
    { [ID |-> 0, Prefix |-> 0],
      [ID |-> 10, Prefix |-> 8],
      [ID |-> 266, Prefix |-> 16] }

\* Gateway stands for the fields of a route that are not part of its lookup
\* key (Gateway, SourceHint, MTU).
Gateways == {0, 1}

\* tcpip.Route
Routes == [Destination : Subnets, Gateway : Gateways, NIC : NICIDs]

\* The zero Route, used where no route is recorded.
NoRoute == [Destination |-> [ID |-> 0, Prefix |-> 0], Gateway |-> 0, NIC |-> 0]

\* Recorded where the history holds no table; no route table contains NoRoute.
NoTable == <<NoRoute>>

VARIABLES
    nics,          \* Stack.nics: NIC id -> nic, DOMAIN nics are the ids present
    routeTable,    \* Stack.routeTable: sequence of routes, front first
    nicIDGen,      \* Stack.nicIDGen
    peerNics,      \* peer.nics of the peer stack of SetNICStack
    peerNICIDGen,  \* peer.nicIDGen
    last,          \* history: the last method that returned, and its result
    beforeAdd,     \* history: the table before AddRoute(r), while last is that
                   \* AddRoute or the RemoveRoutes(x == r) that follows it
    setArg,        \* history: the argument, when last is SetRouteTable
    mu,                  \* Stack.mu
    routeMu,             \* Stack.routeMu
    cleanupEndpointsMu,  \* Stack.cleanupEndpointsMu
    cleanupEndpoints,    \* Stack.cleanupEndpoints
    threads,             \* the goroutines calling into the stack (SpecConc)
    calls,               \* the calls the goroutines have made so far (SpecConc)
    demux,               \* Stack.demux: the registrations of transport endpoints
    handleLocal,         \* Stack.handleLocal, fixed by New
    rawFactory,          \* Stack.rawFactory is not nil, fixed by New
    saveRestoreEnabled,  \* Stack.saveRestoreEnabled
    restoredEndpoints,   \* Stack.restoredEndpoints
    resumableEndpoints,  \* Stack.resumableEndpoints
    tables,              \* Stack.tables: the stack whose IPTables they are
    nftables,            \* Stack.nftables: the stack whose NFTables they are
    seed,                \* Stack.seed: the stack it was drawn for
    tsOffsetSecret,      \* Stack.tsOffsetSecret: the stack it was drawn for
    defaultForwardingEnabled  \* Stack.defaultForwardingEnabled, a set of protocol numbers

\* The history of the sequential specifications.
histVars == <<last, beforeAdd, setArg>>

\* The fields of the Stack that the methods of the NIC map, the route table
\* and the demuxer leave alone.
restVars ==
    <<handleLocal, rawFactory, saveRestoreEnabled, restoredEndpoints, resumableEndpoints,
      tables, nftables, seed, tsOffsetSecret, defaultForwardingEnabled>>

\* Locks, cleanup set, goroutines and demuxer, used by the concurrent
\* specifications only, and the fields the sequential methods leave alone.
concVars ==
    <<mu, routeMu, cleanupEndpointsMu, cleanupEndpoints, threads, calls, demux, restVars>>

vars == <<nics, routeTable, nicIDGen, peerNics, peerNICIDGen, last, beforeAdd, setArg,
          mu, routeMu, cleanupEndpointsMu, cleanupEndpoints, threads, calls, demux,
          handleLocal, rawFactory, saveRestoreEnabled, restoredEndpoints, resumableEndpoints,
          tables, nftables, seed, tsOffsetSecret, defaultForwardingEnabled>>

(***************************************************************************)
(* Route table: tcpip.RouteList operations and the locked helpers.         *)
(***************************************************************************)
\* subnet.Prefix() of the route's destination
Prefix(route) == route.Destination.Prefix

\* Route.Equal: the lookup key is the destination and the outgoing NIC.
Equal(r, to) == r.Destination = to.Destination /\ r.NIC = to.NIC

\* RouteList.InsertBefore: e is linked in front of the element at position n.
InsertBefore(list, n, e) ==
    SubSeq(list, 1, n - 1) \o <<e>> \o SubSeq(list, n, Len(list))

\* RouteList.PushBack
PushBack(list, e) == Append(list, e)

\* Mutant of addRouteLocked: the route is always pushed to the back.
addRouteLocked_PushBack(table, route) == PushBack(table, route)

\* Mutant of addRouteLocked: the comparison is <= instead of <.
addRouteLocked_BeforeEqual(table, route) ==
    LET shorter == { n \in 1..Len(table) : Prefix(table[n]) <= Prefix(route) }
    IN  IF shorter # {}
        THEN InsertBefore(table, CHOOSE n \in shorter : \A k \in shorter : n <= k, route)
        ELSE PushBack(table, route)

\* addRouteLocked: walk from the front, insert before the first entry whose
\* prefix is strictly shorter, else push to the back.
addRouteLocked(table, route) ==
    LET shorter == { n \in 1..Len(table) : Prefix(table[n]) < Prefix(route) }
    IN  IF shorter # {}
        THEN InsertBefore(table, CHOOSE n \in shorter : \A k \in shorter : n <= k, route)
        ELSE PushBack(table, route)

\* The predicates callers hand to RemoveRoutes, as data.
Matchers ==
    [kind : {"eq"}, route : Routes, id : {0}]
        \cup [kind : {"nic"}, route : {NoRoute}, id : NICIDs]
        \cup [kind : {"none", "all"}, route : {NoRoute}, id : {0}]

\* match(route) for a matcher m. Besides the callers' predicates there is
\* "key", the closure ReplaceRoute passes: rt.Equal(route).
Match(m, x) ==
    CASE m.kind = "eq" -> x = m.route
      [] m.kind = "key" -> Equal(x, m.route)
      [] m.kind = "nic" -> x.NIC = m.id
      [] m.kind = "all" -> TRUE
      [] OTHER -> FALSE

\* func(x) bool { return x == route }
MatchEqual(route) == [kind |-> "eq", route |-> route, id |-> 0]
\* func(rt) bool { return rt.Equal(route) }
MatchKey(route) == [kind |-> "key", route |-> route, id |-> 0]
\* func(r) bool { return r.NIC == id }
MatchNIC(id) == [kind |-> "nic", route |-> NoRoute, id |-> id]

\* removeRoutesLocked: one pass from the front; a matching entry is unlinked
\* and counted, the others stay where they are.
RECURSIVE removeRoutesFrom(_, _, _, _, _)
removeRoutesFrom(table, m, n, kept, count) ==
    IF n > Len(table)
    THEN [table |-> kept, count |-> count]
    ELSE IF Match(m, table[n])
         THEN removeRoutesFrom(table, m, n + 1, kept, count + 1)
         ELSE removeRoutesFrom(table, m, n + 1, Append(kept, table[n]), count)

\* Mutant of removeRoutesLocked: the walk stops at the first match.
removeRoutesLocked_FirstOnly(table, m) ==
    LET hit == { n \in 1..Len(table) : Match(m, table[n]) }
    IN  IF hit = {}
        THEN [table |-> table, count |-> 0]
        ELSE LET n == CHOOSE i \in hit : \A k \in hit : i <= k
             IN  [table |-> SubSeq(table, 1, n - 1) \o SubSeq(table, n + 1, Len(table)),
                  count |-> 1]

removeRoutesLocked(table, m) == removeRoutesFrom(table, m, 1, <<>>, 0)

\* SetRouteTable under routeMu: Reset, then addRouteLocked for each entry of
\* the argument in order.
RECURSIVE setRouteTableFrom(_, _, _)
setRouteTableFrom(acc, table, n) ==
    IF n > Len(table)
    THEN acc
    ELSE setRouteTableFrom(addRouteLocked(acc, table[n]), table, n + 1)

\* Mutant of setRouteTable: the Reset is missing.
setRouteTable_NoReset(table) == setRouteTableFrom(routeTable, table, 1)

setRouteTable(table) == setRouteTableFrom(<<>>, table, 1)

\* Mutant of replaceRoute: nothing is removed before the insertion.
replaceRoute_NoRemove(table, route) == addRouteLocked(table, route)

\* ReplaceRoute under routeMu: remove the entries Equal to route, then add it.
replaceRoute(table, route) ==
    addRouteLocked(removeRoutesLocked(table, MatchKey(route)).table, route)

\* GetRouteTable: a copy of the table, front first.
GetRouteTable == routeTable


(***************************************************************************)
(* NICs.                                                                   *)
(***************************************************************************)
\* The nic built by newNIC: its name, whether its link endpoint implements
\* CoordinatorNIC (coord), no coordinator (Primary) set, not enabled, not
\* forwarding for any protocol (forwarding is the set of the network protocol
\* numbers it forwards), no address. stack
\* is the Stack that owns it, "s" for the stack whose methods the actions are;
\* mtu and linkAddress are those of its link endpoint, "ep" for the ones the
\* endpoint came with.
newNIC(ep, opts) ==
    [name |-> opts.Name, coord |-> ep.coord, Primary |-> 0,
     enabled |-> FALSE, forwarding |-> {}, addrs |-> {},
     stack |-> "s", mtu |-> "ep", linkAddress |-> "ep", multicastForwarding |-> FALSE]

\* n.NetworkLinkEndpoint: the link endpoint the nic wraps.
LinkEndpointOf(n) == [coord |-> n.coord]

\* nic.stack = stack, for every nic of the NIC map m.
setStack(m, stack) == [i \in DOMAIN m |-> [m[i] EXCEPT !.stack = stack]]

\* n.enable(): the nic is enabled unless enable fails (enableErr).
enable(n, enableErr) == [n EXCEPT !.enabled = @ \/ ~enableErr]

\* The nic CreateNICWithOptions stores: enabled unless opts.Disabled.
createdNIC(ep, opts, enableErr) ==
    IF opts.Disabled THEN newNIC(ep, opts) ELSE enable(newNIC(ep, opts), enableErr)

\* s.nics[id] = n
MapPut(m, id, n) == [i \in DOMAIN m \cup {id} |-> IF i = id THEN n ELSE m[i]]

\* delete(s.nics, id)
MapDelete(m, id) == [i \in DOMAIN m \ {id} |-> m[i]]

\* make(map[tcpip.NICID]*nic)
EmptyNICs == [i \in {} |-> 0]

\* HasNIC
HasNIC(id) == id \in DOMAIN nics

\* CheckNIC: the nic is in the map and nic.Enabled()
CheckNIC(id) == id \in DOMAIN nics /\ nics[id].enabled

\* Mutant of createNICWithOptions: a nic whose enable() fails is not stored.
createNICWithOptions_Rollback(m, id, ep, opts, enableErr) ==
    IF id = 0
    THEN [nics |-> m, err |-> "ErrInvalidNICID", epCalls |-> 0]
    ELSE IF id \in DOMAIN m
    THEN [nics |-> m, err |-> "ErrDuplicateNICID", epCalls |-> 0]
    ELSE IF opts.Name # "" /\ \E i \in DOMAIN m : m[i].name = opts.Name
    THEN [nics |-> m, err |-> "ErrDuplicateNICID", epCalls |-> 0]
    ELSE IF ~opts.Disabled /\ enableErr
    THEN [nics |-> m, err |-> "ErrEnable", epCalls |-> 2]
    ELSE [nics |-> MapPut(m, id, createdNIC(ep, opts, enableErr)),
          err |-> "nil",
          epCalls |-> IF opts.Disabled THEN 1 ELSE 2]

\* Mutant of createNICWithOptions: the name is not compared with the names
\* of the NICs present.
createNICWithOptions_AnyName(m, id, ep, opts, enableErr) ==
    IF id = 0
    THEN [nics |-> m, err |-> "ErrInvalidNICID", epCalls |-> 0]
    ELSE IF id \in DOMAIN m
    THEN [nics |-> m, err |-> "ErrDuplicateNICID", epCalls |-> 0]
    ELSE [nics |-> MapPut(m, id, createdNIC(ep, opts, enableErr)),
          err |-> IF ~opts.Disabled /\ enableErr THEN "ErrEnable" ELSE "nil",
          epCalls |-> IF opts.Disabled THEN 1 ELSE 2]

\* CreateNICWithOptions on the NIC map m: the checks in the code's order, then
\* the new nic is stored and, unless opts.Disabled, n.enable() is called:
\* enableErr is its outcome, and its error is returned with the nic in the map.
\* epCalls counts the steps that reach the link endpoint ep: none while the
\* checks fail, then ep.SetOnCloseAction, then n.enable(), which attaches ep.
createNICWithOptions(m, id, ep, opts, enableErr) ==
    IF id = 0
    THEN [nics |-> m, err |-> "ErrInvalidNICID", epCalls |-> 0]
    ELSE IF id \in DOMAIN m
    THEN [nics |-> m, err |-> "ErrDuplicateNICID", epCalls |-> 0]
    ELSE IF opts.Name # "" /\ \E i \in DOMAIN m : m[i].name = opts.Name
    THEN [nics |-> m, err |-> "ErrDuplicateNICID", epCalls |-> 0]
    ELSE [nics |-> MapPut(m, id, createdNIC(ep, opts, enableErr)),
          err |-> IF ~opts.Disabled /\ enableErr THEN "ErrEnable" ELSE "nil",
          epCalls |-> IF opts.Disabled THEN 1 ELSE 2]

\* The NICs whose network endpoints do not implement
\* ForwardingNetworkEndpoint: forwarding support that is not uniform.
NoForwarding == {2}

\* The error of nic.setForwarding(protocol, enable) on NIC id: the nic has
\* no network endpoint for a protocol that is not registered, and the
\* endpoint may not forward.
setForwardingErr(id, protocol) ==
    IF protocol \notin {4, 6}
    THEN "ErrUnknownProtocol"
    ELSE IF id \in NoForwarding THEN "ErrNotSupported" ELSE "nil"

\* nic.setForwarding(protocol, enable) when it succeeds.
setForwarding(n, protocol, on) ==
    [n EXCEPT !.forwarding = IF on THEN @ \cup {protocol} ELSE @ \ {protocol}]

\* Mutant of withDefaultForwarding: the default protocols are not applied.
withDefaultForwarding_Skip(m, res, id, dfe) == res

\* CreateNICWithOptions between newNIC and s.nics[id] = n: setForwarding(proto,
\* true) on the new nic for every proto of defaultForwardingEnabled (dfe); an
\* error of any of them panics. res is the outcome of the call without that
\* loop, m the NIC map before the call.
withDefaultForwarding(m, res, id, dfe) ==
    IF res.err \in {"ErrInvalidNICID", "ErrDuplicateNICID"}
    THEN res
    ELSE IF \E proto \in dfe : setForwardingErr(id, proto) # "nil"
    THEN [nics |-> m, err |-> "panic", epCalls |-> 0]
    ELSE [res EXCEPT !.nics[id].forwarding = dfe]

\* The orders in which a range over the keys S of a map may visit them.
Orders(S) ==
    { o \in [1..Cardinality(S) -> S] : \A i, j \in 1..Cardinality(S) : o[i] = o[j] => i = j }

\* The loop of SetForwardingDefaultAndAllNICs over the NICs in order: the
\* first error is returned if no NIC was set before (doneOnce), else it
\* panics.
RECURSIVE setForwardingAll(_, _, _, _, _)
setForwardingAll(m, order, protocol, on, doneOnce) ==
    IF order = <<>>
    THEN [nics |-> m, err |-> "nil"]
    ELSE LET id == Head(order)
             err == setForwardingErr(id, protocol)
         IN  IF err # "nil"
             THEN [nics |-> m, err |-> IF doneOnce THEN "panic" ELSE err]
             ELSE setForwardingAll([m EXCEPT ![id] = setForwarding(@, protocol, on)],
                                   Tail(order), protocol, on, TRUE)

\* SetForwardingDefaultAndAllNICs on NIC map m and default set dfe: after
\* the loop the protocol is put into the default set or taken out of it.
setForwardingDefaultAndAllNICs(m, dfe, order, protocol, on) ==
    LET res == setForwardingAll(m, order, protocol, on, FALSE)
    IN  [nics |-> res.nics, err |-> res.err,
         dfe |-> IF res.err # "nil"
                 THEN dfe
                 ELSE IF on THEN dfe \cup {protocol} ELSE dfe \ {protocol}]

\* removeNICLocked on NIC map m and route table: delErr is the outcome of the
\* coordinator's DelNIC, remErr that of nic.remove. deferAct tells whether a
\* deferred action (the link endpoint's Close) is returned.
removeNICLocked(m, table, id, delErr, remErr) ==
    IF id \notin DOMAIN m
    THEN [nics |-> m, table |-> table, deferAct |-> FALSE, err |-> "ErrUnknownNICID"]
    ELSE IF m[id].Primary # 0 /\ delErr
    THEN [nics |-> MapDelete(m, id), table |-> table, deferAct |-> FALSE,
          err |-> "ErrCoordinator"]
    ELSE [nics |-> MapDelete(m, id),
          table |-> removeRoutesLocked(table, MatchNIC(id)).table,
          deferAct |-> ~remErr, err |-> IF remErr THEN "ErrRemove" ELSE "nil"]

\* Mutant of setNICCoordinator: nic.Primary is set before AddNIC is called.
setNICCoordinator_SetFirst(m, id, mid, addErr) ==
    IF id \notin DOMAIN m
    THEN [nics |-> m, err |-> "ErrUnknownNICID"]
    ELSE IF m[id].coord
    THEN [nics |-> m, err |-> "ErrNoSuchFile"]
    ELSE IF mid \notin DOMAIN m
    THEN [nics |-> m, err |-> "ErrUnknownNICID"]
    ELSE IF ~m[mid].coord
    THEN [nics |-> m, err |-> "ErrNotSupported"]
    ELSE [nics |-> [m EXCEPT ![id].Primary = mid],
          err |-> IF addErr THEN "ErrCoordinator" ELSE "nil"]

\* SetNICCoordinator on NIC map m: addErr is the outcome of the coordinator's
\* AddNIC.
setNICCoordinator(m, id, mid, addErr) ==
    IF id \notin DOMAIN m
    THEN [nics |-> m, err |-> "ErrUnknownNICID"]
    ELSE IF m[id].coord
    THEN [nics |-> m, err |-> "ErrNoSuchFile"]
    ELSE IF mid \notin DOMAIN m
    THEN [nics |-> m, err |-> "ErrUnknownNICID"]
    ELSE IF ~m[mid].coord
    THEN [nics |-> m, err |-> "ErrNotSupported"]
    ELSE IF addErr
    THEN [nics |-> m, err |-> "ErrCoordinator"]
    ELSE [nics |-> [m EXCEPT ![id].Primary = mid], err |-> "nil"]

\* SetNICName on NIC map m: nic.name = name, whatever the other names are.
setNICName(m, id, name) ==
    IF id \notin DOMAIN m
    THEN [nics |-> m, err |-> "ErrUnknownNICID"]
    ELSE [nics |-> [m EXCEPT ![id].name = name], err |-> "nil"]

\* Mutant of setNICMTU: an id that is not in the map gets a nic.
setNICMTU_NoLookup(m, id, mtu) ==
    [nics |-> MapPut(m, id, [(IF id \in DOMAIN m THEN m[id]
                                ELSE newNIC([coord |-> FALSE], [Name |-> ""]))
                               EXCEPT !.mtu = mtu]),
     err |-> "nil"]

\* SetNICMTU on NIC map m: nic.NetworkLinkEndpoint.SetMTU(mtu)
setNICMTU(m, id, mtu) ==
    IF id \notin DOMAIN m
    THEN [nics |-> m, err |-> "ErrUnknownNICID"]
    ELSE [nics |-> [m EXCEPT ![id].mtu = mtu], err |-> "nil"]

\* SetNICAddress on NIC map m: nic.NetworkLinkEndpoint.SetLinkAddress(addr)
setNICAddress(m, id, addr) ==
    IF id \notin DOMAIN m
    THEN [nics |-> m, err |-> "ErrUnknownNICID"]
    ELSE [nics |-> [m EXCEPT ![id].linkAddress = addr], err |-> "nil"]

\* Mutant of remove: the link endpoint is closed whatever the argument is.
remove_Close(closeLinkEndpoint, remErr) ==
    [closed |-> ~remErr, err |-> IF remErr THEN "ErrRemove" ELSE "nil"]

\* nic.remove(closeLinkEndpoint): remErr is its outcome; the deferred action
\* it returns closes the link endpoint, and only if closeLinkEndpoint.
remove(closeLinkEndpoint, remErr) ==
    [closed |-> closeLinkEndpoint /\ ~remErr, err |-> IF remErr THEN "ErrRemove" ELSE "nil"]

(***************************************************************************)
(* Raw and packet endpoints.                                               *)
(***************************************************************************)
\* The transport protocol numbers callers pass, and s.transportProtocols, the
\* ones New registered.
TransportNumbers == {6, 17}

transportProtocols == {6}

\* Mutant of newRawEndpoint: the protocol is looked up before the factory.
newRawEndpoint_ProtocolFirst(rf, transport, associated, epErr) ==
    IF associated /\ transport \notin transportProtocols
    THEN "ErrUnknownProtocol"
    ELSE IF ~rf
    THEN "ErrNotPermitted"
    ELSE epErr

\* NewRawEndpoint with rawFactory non-nil or not (rf): the error returned.
\* epErr is the error of the factory's NewUnassociatedEndpoint, of the
\* protocol's NewRawEndpoint for an associated endpoint.
newRawEndpoint(rf, transport, associated, epErr) ==
    IF ~rf
    THEN "ErrNotPermitted"
    ELSE IF ~associated
    THEN epErr
    ELSE IF transport \notin transportProtocols
    THEN "ErrUnknownProtocol"
    ELSE epErr

\* NewPacketEndpoint: epErr is the error of the factory's NewPacketEndpoint.
newPacketEndpoint(rf, epErr) == IF ~rf THEN "ErrNotPermitted" ELSE epErr

(***************************************************************************)
(* Operations keyed by a protocol number.                                  *)
(***************************************************************************)
\* The registered network protocols that implement
\* MulticastForwardingNetworkProtocol.
MulticastCapable == {4}

\* The methods that look a protocol up and forward an option to it, and the
\* map each looks the number up in.
OptionMethods ==
    [SetNetworkProtocolOption |-> {4, 6}, NetworkProtocolOption |-> {4, 6},
     SetTransportProtocolOption |-> transportProtocols,
     TransportProtocolOption |-> transportProtocols]

\* The methods that forward to a MulticastForwardingNetworkProtocol.
MulticastMethods ==
    {"AddMulticastRoute", "RemoveMulticastRoute", "MulticastRouteLastUsedTime",
     "EnableMulticastForwardingForProtocol", "DisableMulticastForwardingForProtocol"}

\* SetNetworkProtocolOption and the three like it: the number is looked up in
\* protos; optErr is what the protocol returns. fwd tells whether the call
\* reached the protocol.
protocolOption(protos, number, optErr) ==
    IF number \notin protos
    THEN [err |-> "ErrUnknownProtocol", fwd |-> 0]
    ELSE [err |-> optErr, fwd |-> 1]

\* NewEndpoint: the transport protocol is looked up; network is handed to
\* the protocol's NewEndpoint, whose outcome is epErr.
newEndpoint(transport, epErr) ==
    IF transport \notin transportProtocols
    THEN [err |-> "ErrUnknownProtocol", fwd |-> 0]
    ELSE [err |-> epErr, fwd |-> 1]

\* Mutant of multicastForwarding: the capability is tested before the
\* registration.
multicastForwarding_CapabilityFirst(protocol, fwdErr) ==
    IF protocol \notin MulticastCapable
    THEN [err |-> "ErrNotSupported", fwd |-> 0]
    ELSE [err |-> fwdErr, fwd |-> 1]

\* AddMulticastRoute and the four like it: the protocol is looked up in
\* s.networkProtocols, then cast to MulticastForwardingNetworkProtocol;
\* fwdErr is what the protocol returns.
multicastForwarding(protocol, fwdErr) ==
    IF protocol \notin {4, 6}
    THEN [err |-> "ErrUnknownProtocol", fwd |-> 0]
    ELSE IF protocol \notin MulticastCapable
    THEN [err |-> "ErrNotSupported", fwd |-> 0]
    ELSE [err |-> fwdErr, fwd |-> 1]

(***************************************************************************)
(* FindRoute. Addresses are named by their kind: "" the empty address,     *)
(* "g1" and "g2" global unicast, "mc" multicast, "bc" the IPv4 local       *)
(* broadcast, "ll" IPv6 link-local, "lo4" and "lo6" the loopbacks.         *)
(***************************************************************************)
\* header.IsV4LoopbackAddress || header.IsV6LoopbackAddress
isLoopback(addr) == addr \in {"lo4", "lo6"}

\* needRoute: the remote is none of multicast, local broadcast, link-local
\* and loopback.
needRoute(addr) == addr \notin {"mc", "bc", "ll", "lo4", "lo6"}

\* Subnet.Contains: "g1" and "g2" lie in 10/8, "g1" alone in the /16, every
\* address in the default subnet.
Contains(subnet, addr) ==
    \/ subnet.Prefix = 0
    \/ subnet.Prefix = 8 /\ addr \in {"g1", "g2"}
    \/ subnet.Prefix = 16 /\ addr = "g1"

\* getAddressEP: the primary endpoint of the nic when localAddr is empty,
\* else the endpoint of localAddr on the nic; "" is the nil endpoint.
getAddressEP(n, localAddr) ==
    IF localAddr = ""
    THEN IF n.addrs = {} THEN "" ELSE CHOOSE a \in n.addrs : TRUE
    ELSE IF localAddr \in n.addrs THEN localAddr ELSE ""

\* The Route makeRoute builds: mtu is "0" or "route.MTU", the MTU of the
\* table entry; entry is the position of that entry in the table, 0 for none.
makeRoute(outgoingNIC, localAddressNIC, gateway, mtu, entry) ==
    [outgoingNIC |-> outgoingNIC, localAddressNIC |-> localAddressNIC,
     gateway |-> gateway, mtu |-> mtu, entry |-> entry, local |-> FALSE]

\* The Route makeLocalRoute builds: packets never leave the stack.
makeLocalRoute(outgoingNIC, localAddressNIC) ==
    [makeRoute(outgoingNIC, localAddressNIC, 0, "0", 0) EXCEPT !.local = TRUE]

\* The nil *Route.
NilRoute == makeRoute(0, 0, 0, "0", 0)

\* What FindRoute returns.
Found(r) == [route |-> r, err |-> "nil"]

Failed(err) == [route |-> NilRoute, err |-> err]

\* findLocalRouteFromNICRLocked: the routes it may return, none for nil. The
\* local address must be assigned to NIC n; the outgoing NIC is n if it has
\* the remote address, else a NIC of the map that has it, whichever the
\* iteration over the map meets first.
findLocalRouteFromNICRLocked(m, n, localAddr, remoteAddr) ==
    IF localAddr \notin m[n].addrs
    THEN {}
    ELSE IF remoteAddr \in m[n].addrs
    THEN {makeLocalRoute(n, n)}
    ELSE { makeLocalRoute(o, n) : o \in { i \in DOMAIN m : remoteAddr \in m[i].addrs } }

\* findLocalRouteRLocked: an empty local address stands for the remote one;
\* every NIC is tried when id is 0, else NIC id alone.
findLocalRouteRLocked(m, id, localAddr, remoteAddr) ==
    LET l == IF localAddr = "" THEN remoteAddr ELSE localAddr
    IN  IF id = 0
        THEN UNION { findLocalRouteFromNICRLocked(m, n, l, remoteAddr) : n \in DOMAIN m }
        ELSE IF id \in DOMAIN m
        THEN findLocalRouteFromNICRLocked(m, id, l, remoteAddr)
        ELSE {}

\* Mutant of localRoute: the local route is attempted whatever handleLocal is.
localRoute_Always(m, hl, q) ==
    IF q.remoteAddr \notin {"mc", "bc"}
    THEN findLocalRouteRLocked(m, q.id, q.localAddr, q.remoteAddr)
    ELSE {}

\* FindRoute's local-route attempt. q holds the arguments of the call: id,
\* localAddr, remoteAddr, whether netProto is registered (netOK) and whether
\* constructAndValidateRoute accepts a local address of another NIC (crossOK).
localRoute(m, hl, q) ==
    IF hl /\ q.remoteAddr \notin {"mc", "bc"}
    THEN findLocalRouteRLocked(m, q.id, q.localAddr, q.remoteAddr)
    ELSE {}

\* Mutant of directRoute: the NIC need not be enabled.
directRoute_Disabled(m, q) ==
    IF q.id \in DOMAIN m /\ getAddressEP(m[q.id], q.localAddr) # ""
    THEN {Found(makeRoute(q.id, q.id, 0, "0", 0))}
    ELSE IF isLoopback(q.remoteAddr)
    THEN {Failed("ErrBadLocalAddress")}
    ELSE {Failed("ErrNetworkUnreachable")}

\* FindRoute with id != 0 and !needRoute: the route through NIC id, built
\* without the route table.
directRoute(m, q) ==
    IF q.id \in DOMAIN m /\ m[q.id].enabled /\ getAddressEP(m[q.id], q.localAddr) # ""
    THEN {Found(makeRoute(q.id, q.id, 0, "0", 0))}
    ELSE IF isLoopback(q.remoteAddr)
    THEN {Failed("ErrBadLocalAddress")}
    ELSE {Failed("ErrNetworkUnreachable")}

\* findRouteWithLocalAddrFromAnyInterfaceRLocked: the routes it may return,
\* leaving through NIC out with the local address of any NIC that yields an
\* address endpoint, whichever the iteration over the map meets first.
findRouteWithLocalAddrFromAnyInterfaceRLocked(m, out, q, gateway, entry) ==
    { makeRoute(out, a, gateway, "route.MTU", entry) :
        a \in { i \in DOMAIN m : /\ getAddressEP(m[i], q.localAddr) # ""
                                 /\ i = out \/ q.crossOK } }

\* Mutant of Scanned: entries of disabled NICs are scanned too.
Scanned_Disabled(m, route, q) ==
    /\ q.remoteAddr # "" => Contains(route.Destination, q.remoteAddr)
    /\ route.NIC \in DOMAIN m

\* The entries the scan does not skip.
Scanned(m, route, q) ==
    /\ q.remoteAddr # "" => Contains(route.Destination, q.remoteAddr)
    /\ route.NIC \in DOMAIN m
    /\ m[route.NIC].enabled

\* Mutant of Remembers: a locally generated call does not remember either.
Remembers_Never(q) == FALSE

\* locallyGenerated: the scan remembers the entry and goes on.
Remembers(q) == q.id # 0 \/ q.localAddr # ""

\* The netProto of the FindRoute calls whose protocol is registered: IPv4.
FindProto == 4

\* isNICForwarding(nic, proto)
isNICForwarding(n, proto) == proto \in n.forwarding

\* onlyGlobalAddresses
onlyGlobalAddresses(q) == q.localAddr # "ll" /\ q.remoteAddr # "ll"

\* The scan of the table from entry n on, chosen being the entry remembered
\* so far (chosenRoute), 0 for none: the routes the scan may return and the
\* entry remembered when it ends.
RECURSIVE scanFrom(_, _, _, _, _)
scanFrom(m, table, n, chosen, q) ==
    IF n > Len(table)
    THEN [routes |-> {}, chosen |-> chosen]
    ELSE LET route == table[n]
         IN  IF ~Scanned(m, route, q)
             THEN scanFrom(m, table, n + 1, chosen, q)
             ELSE IF /\ q.id = 0 \/ q.id = route.NIC
                     /\ getAddressEP(m[route.NIC], q.localAddr) # ""
             THEN [routes |-> {makeRoute(route.NIC, route.NIC,
                                         IF needRoute(q.remoteAddr) THEN route.Gateway ELSE 0,
                                         "route.MTU", n)},
                   chosen |-> chosen]
             ELSE IF onlyGlobalAddresses(q) /\ chosen = 0 /\ isNICForwarding(m[route.NIC], FindProto)
             THEN IF Remembers(q)
                  THEN scanFrom(m, table, n + 1, n, q)
                  ELSE LET rs == findRouteWithLocalAddrFromAnyInterfaceRLocked(
                                     m, route.NIC, q, route.Gateway, n)
                       IN  IF rs # {}
                           THEN [routes |-> rs, chosen |-> chosen]
                           ELSE scanFrom(m, table, n + 1, chosen, q)
             ELSE scanFrom(m, table, n + 1, chosen, q)

\* Mutant of finalError: a needed route that was not found is reported as
\* the network being unreachable.
finalError_Network(q) ==
    IF q.remoteAddr = "lo6"
    THEN {Failed("ErrBadLocalAddress")}
    ELSE {Failed("ErrNetworkUnreachable")}

\* The final fallbacks of FindRoute.
finalError(q) ==
    IF needRoute(q.remoteAddr)
    THEN {Failed("ErrHostUnreachable")}
    ELSE IF q.remoteAddr = "lo6"
    THEN {Failed("ErrBadLocalAddress")}
    ELSE {Failed("ErrNetworkUnreachable")}

\* FindRoute after a scan that returned no route: the remembered entry, if
\* any, is used with the local address of NIC id, or of any NIC when id is 0.
afterScan(m, table, chosen, q) ==
    IF chosen = 0
    THEN finalError(q)
    ELSE LET route == table[chosen]
             gateway == IF needRoute(q.remoteAddr) THEN route.Gateway ELSE 0
         IN  IF q.id # 0
             THEN IF /\ q.id \in DOMAIN m
                     /\ getAddressEP(m[q.id], q.localAddr) # ""
                     /\ q.id = route.NIC \/ q.crossOK
                  THEN {Found(makeRoute(route.NIC, q.id, gateway, "route.MTU", chosen))}
                  ELSE {Failed("ErrHostUnreachable")}
             ELSE LET rs == findRouteWithLocalAddrFromAnyInterfaceRLocked(
                                m, route.NIC, q, gateway, chosen)
                  IN  IF rs # {} THEN { Found(r) : r \in rs } ELSE finalError(q)

\* FindRoute on NIC map m, route table and handleLocal hl: what the call may
\* return. It returns one of several routes where the code iterates over the
\* NIC map, whose order is not fixed.
findRoute(m, table, hl, q) ==
    IF ~q.netOK
    THEN {Failed("ErrUnknownProtocol")}
    ELSE IF localRoute(m, hl, q) # {}
    THEN { Found(r) : r \in localRoute(m, hl, q) }
    ELSE IF q.id # 0 /\ ~needRoute(q.remoteAddr)
    THEN directRoute(m, q)
    ELSE LET s == scanFrom(m, table, 1, 0, q)
         IN  IF s.routes # {}
             THEN { Found(r) : r \in s.routes }
             ELSE afterScan(m, table, s.chosen, q)

(***************************************************************************)
(* Transport demuxer: the set of registrations (netProto, id, ep) of one   *)
(* transport protocol, without flags and NIC binding.                      *)
(***************************************************************************)
\* Mutant of registerEndpoint: only the first network protocol is registered.
registerEndpoint_FirstNet(d, nets, id, ep) ==
    IF \E g \in d : g.net \in nets /\ g.id = id
    THEN [demux |-> d, err |-> "ErrPortInUse"]
    ELSE [demux |-> d \cup { [net |-> n, id |-> id, ep |-> ep]
                                : n \in { k \in nets : \A j \in nets : k <= j } },
          err |-> "nil"]

\* demux.registerEndpoint: fails if a registration of id exists for one of
\* the network protocols; else ep is registered for each of them.
registerEndpoint(d, nets, id, ep) ==
    IF \E g \in d : g.net \in nets /\ g.id = id
    THEN [demux |-> d, err |-> "ErrPortInUse"]
    ELSE [demux |-> d \cup { [net |-> n, id |-> id, ep |-> ep] : n \in nets },
          err |-> "nil"]

\* demux.unregisterEndpoint: removes the registrations of ep under id for the
\* network protocols; nothing if ep is not registered there.
unregisterEndpoint(d, nets, id, ep) ==
    { g \in d : ~(g.net \in nets /\ g.id = id /\ g.ep = ep) }

\* demux.findTransportEndpoint: the endpoint registered for id, or nil.
findTransportEndpoint(d, net, id) ==
    LET hit == { g \in d : g.net = net /\ g.id = id }
    IN  IF hit = {} THEN "nil" ELSE (CHOOSE g \in hit : TRUE).ep

\* The endpoints the demuxer references: RegisteredEndpoints().
RegisteredEndpoints(d) == { g.ep : g \in d }

(***************************************************************************)
(* Locks and goroutines.                                                   *)
(***************************************************************************)
\* The goroutines that call into the stack.
Threads == {"t1", "t2"}

\* A lock: w the writer inside, r the readers inside, p a writer that has
\* announced itself and waits for the readers to leave.
Unlocked == [w |-> "none", p |-> "none", r |-> {}]

\* Lock() returns: nobody inside, and no other writer announced.
CanLock(l, t) == l.w = "none" /\ l.r = {} /\ l.p \in {"none", t}

\* Lock() finds readers inside: the writer announces itself.
CanAnnounce(l) == l.w = "none" /\ l.r # {} /\ l.p = "none"

\* RLock() returns: no writer inside and none announced.
CanRLock(l) == l.w = "none" /\ l.p = "none"

Lock(l, t) == [l EXCEPT !.w = t, !.p = "none"]

RLock(l, t) == [l EXCEPT !.r = @ \cup {t}]

Unlock(l) == [l EXCEPT !.w = "none"]

RUnlock(l, t) == [l EXCEPT !.r = @ \ {t}]

\* t is inside l.
Holds(l, t) == l.w = t \/ t \in l.r

\* The transport endpoint arguments (netProtos, id, ep) of a call that has
\* none.
NoArg == [nets |-> {}, id |-> 0, eps |-> {}]

\* nic of a goroutine that holds none.
NoNIC ==
    [name |-> "", coord |-> FALSE, Primary |-> 0,
     enabled |-> FALSE, forwarding |-> {}, addrs |-> {},
     stack |-> "s", mtu |-> "ep", linkAddress |-> "ep", multicastForwarding |-> FALSE]

\* A goroutine outside the stack. pc is its position, want the lock call it
\* is blocked in, fn the caller of removeNICLocked, id and nic its locals,
\* acts the NIC ids of the deferred actions it still has to run, cb whether
\* it runs the on-close callback, unlinked the routes its purge has just
\* unlinked, arg the transport endpoint arguments of the call, table the
\* argument of SetRouteTable, eps the endpoints Restore and Resume have still
\* to call and sre the saveRestoreEnabled Restore has read, done the calls
\* the method has made so far into endpoints, protocols and NICs, link the
\* link endpoint of the nic removeNICLocked has taken from the map.
Idle ==
    [pc |-> "idle", want |-> "none", fn |-> "none", id |-> 0, nic |-> NoNIC,
     acts |-> <<>>, cb |-> FALSE, unlinked |-> 0, arg |-> NoArg, table |-> <<>>,
     eps |-> <<>>, sre |-> FALSE, done |-> <<>>, link |-> {}]

\* The goroutine enters a method and reaches its first lock call.
Called(th, pc, want, id) ==
    [th EXCEPT !.pc = pc, !.want = want, !.fn = pc, !.id = id]

\* The goroutine goes on to pc, where it calls want.
Goto(th, pc, want) == [th EXCEPT !.pc = pc, !.want = want, !.unlinked = 0]

\* The outermost method returns.
Return(th) ==
    [th EXCEPT !.pc = "idle", !.want = "none", !.fn = "none", !.id = 0, !.nic = NoNIC,
               !.cb = FALSE, !.arg = NoArg, !.table = <<>>,
               !.eps = <<>>, !.sre = FALSE, !.done = <<>>, !.link = {}]

\* The goroutine has made one more call: call names the method, objs the
\* endpoints, protocols or NIC it was made on. The calls are recorded from
\* the entry of Close, Wait, Destroy, Restore or Resume on, and dropped
\* otherwise.
Did(th, call, objs) ==
    IF th.done = <<>>
    THEN th
    ELSE [th EXCEPT !.done = Append(@, [call |-> call, objs |-> objs])]

\* The goroutine enters a method whose calls are recorded; objs are the
\* endpoints registered at that moment.
Entered(th, call, objs) == [th EXCEPT !.done = <<[call |-> call, objs |-> objs]>>]

(***************************************************************************)
(* History.                                                                *)
(***************************************************************************)
\* ret is the value returned where the method returns one, for
\* CreateNICWithOptions the number of steps that reached the link endpoint,
\* and otherwise the number of table entries the call unlinked. closed tells
\* whether the call closed the link endpoint of the NIC it removed.
Returned(op, id, route, ret, err) ==
    [op |-> op, id |-> id, route |-> route, ret |-> ret, err |-> err, closed |-> FALSE]

(***************************************************************************)
(* Spec: every method is one atomic step.                                  *)
(***************************************************************************)
\* New(opts): the state after construction.
New(opts) ==
    /\ handleLocal = opts.HandleLocal
    /\ rawFactory = opts.RawFactory
    /\ saveRestoreEnabled = FALSE
    /\ restoredEndpoints = <<>>
    /\ resumableEndpoints = <<>>
    /\ tables = "s"
    /\ nftables = "s"
    /\ seed = "s"
    /\ tsOffsetSecret = "s"
    /\ defaultForwardingEnabled = {}
    /\ nics = EmptyNICs
    /\ routeTable = <<>>
    /\ nicIDGen = 0
    /\ peerNics = EmptyNICs
    /\ peerNICIDGen = 0
    /\ last = Returned("New", 0, NoRoute, 0, "nil")
    /\ beforeAdd = NoTable
    /\ setArg = NoTable
    /\ mu = Unlocked
    /\ routeMu = Unlocked
    /\ cleanupEndpointsMu = Unlocked
    /\ cleanupEndpoints = {}
    /\ threads = [t \in Threads |-> Idle]
    /\ calls = 0
    /\ demux = {}

Init == New([HandleLocal |-> FALSE, RawFactory |-> TRUE])

SetRouteTable(table) ==
    /\ routeTable' = setRouteTable(table)
    /\ last' = Returned("SetRouteTable", 0, NoRoute, 0, "nil")
    /\ beforeAdd' = NoTable
    /\ setArg' = table
    /\ UNCHANGED concVars
    /\ UNCHANGED <<nics, nicIDGen, peerNics, peerNICIDGen>>

AddRoute(route) ==
    /\ Len(routeTable) < MaxRoutes
    /\ routeTable' = addRouteLocked(routeTable, route)
    /\ last' = Returned("AddRoute", 0, route, 0, "nil")
    /\ beforeAdd' = routeTable
    /\ setArg' = NoTable
    /\ UNCHANGED concVars
    /\ UNCHANGED <<nics, nicIDGen, peerNics, peerNICIDGen>>

RemoveRoutes(m) ==
    LET res == removeRoutesLocked(routeTable, m)
    IN  /\ routeTable' = res.table
        /\ last' = Returned("RemoveRoutes", 0, m.route, res.count, "nil")
        /\ beforeAdd' = IF last.op = "AddRoute" /\ m = MatchEqual(last.route)
                         THEN beforeAdd
                         ELSE NoTable
        /\ setArg' = NoTable
        /\ UNCHANGED concVars
        /\ UNCHANGED <<nics, nicIDGen, peerNics, peerNICIDGen>>

ReplaceRoute(route) ==
    /\ Len(routeTable) < MaxRoutes \/ \E n \in 1..Len(routeTable) : Equal(routeTable[n], route)
    /\ routeTable' = replaceRoute(routeTable, route)
    /\ last' = Returned("ReplaceRoute", 0, route,
                        Cardinality({ n \in 1..Len(routeTable) : Equal(routeTable[n], route) }),
                        "nil")
    /\ beforeAdd' = NoTable
    /\ setArg' = NoTable
    /\ UNCHANGED concVars
    /\ UNCHANGED <<nics, nicIDGen, peerNics, peerNICIDGen>>

CreateNICWithOptions(id, ep, opts, enableErr) ==
    LET res == withDefaultForwarding(nics, createNICWithOptions(nics, id, ep, opts, enableErr),
                                     id, defaultForwardingEnabled)
    IN  /\ nics' = res.nics
        /\ last' = Returned("CreateNICWithOptions", id, NoRoute, res.epCalls, res.err)
        /\ beforeAdd' = NoTable
        /\ setArg' = NoTable
        /\ UNCHANGED concVars
        /\ UNCHANGED <<routeTable, nicIDGen, peerNics, peerNICIDGen>>

\* CreateNIC: s.CreateNICWithOptions(id, ep, NICOptions{})
CreateNIC(id, ep, enableErr) ==
    CreateNICWithOptions(id, ep, [Name |-> "", Disabled |-> FALSE], enableErr)

\* RemoveNIC: removeNICLocked under mu, then the deferred action. The link
\* endpoint's Close may call back RemoveNIC(id), which finds id absent and
\* returns ErrUnknownNICID without changing anything.
RemoveNIC(id, delErr, remErr) ==
    LET res == removeNICLocked(nics, routeTable, id, delErr, remErr)
    IN  /\ nics' = res.nics
        /\ routeTable' = res.table
        /\ last' = [Returned("RemoveNIC", id, NoRoute, Len(routeTable) - Len(res.table),
                             res.err)
                       EXCEPT !.closed = res.deferAct]
        /\ beforeAdd' = NoTable
        /\ setArg' = NoTable
        /\ UNCHANGED concVars
        /\ UNCHANGED <<nicIDGen, peerNics, peerNICIDGen>>

SetNICCoordinator(id, mid, addErr) ==
    LET res == setNICCoordinator(nics, id, mid, addErr)
    IN  /\ nics' = res.nics
        /\ last' = Returned("SetNICCoordinator", id, NoRoute, 0, res.err)
        /\ beforeAdd' = NoTable
        /\ setArg' = NoTable
        /\ UNCHANGED concVars
        /\ UNCHANGED <<routeTable, nicIDGen, peerNics, peerNICIDGen>>

SetNICName(id, name) ==
    LET res == setNICName(nics, id, name)
    IN  /\ nics' = res.nics
        /\ last' = Returned("SetNICName", id, NoRoute, 0, res.err)
        /\ beforeAdd' = NoTable
        /\ setArg' = NoTable
        /\ UNCHANGED concVars
        /\ UNCHANGED <<routeTable, nicIDGen, peerNics, peerNICIDGen>>

\* EnableNIC: nic.enable(), whose outcome is enableErr.
EnableNIC(id, enableErr) ==
    /\ IF id \notin DOMAIN nics
       THEN /\ last' = Returned("EnableNIC", id, NoRoute, 0, "ErrUnknownNICID")
            /\ UNCHANGED nics
       ELSE /\ nics' = [nics EXCEPT ![id] = enable(@, enableErr)]
            /\ last' = Returned("EnableNIC", id, NoRoute, 0,
                                IF enableErr THEN "ErrEnable" ELSE "nil")
    /\ beforeAdd' = NoTable
    /\ setArg' = NoTable
    /\ UNCHANGED concVars
    /\ UNCHANGED <<routeTable, nicIDGen, peerNics, peerNICIDGen>>

\* DisableNIC: nic.disable()
DisableNIC(id) ==
    /\ IF id \notin DOMAIN nics
       THEN /\ last' = Returned("DisableNIC", id, NoRoute, 0, "ErrUnknownNICID")
            /\ UNCHANGED nics
       ELSE /\ nics' = [nics EXCEPT ![id].enabled = FALSE]
            /\ last' = Returned("DisableNIC", id, NoRoute, 0, "nil")
    /\ beforeAdd' = NoTable
    /\ setArg' = NoTable
    /\ UNCHANGED concVars
    /\ UNCHANGED <<routeTable, nicIDGen, peerNics, peerNICIDGen>>

\* SetNICForwarding: nic.setForwarding(protocol, enable), the protocol being
\* the one of the FindRoute calls.
SetNICForwarding(id, on) ==
    /\ IF id \notin DOMAIN nics
       THEN /\ last' = Returned("SetNICForwarding", id, NoRoute, 0, "ErrUnknownNICID")
            /\ UNCHANGED nics
       ELSE /\ nics' = [nics EXCEPT ![id].forwarding =
                                IF on THEN @ \cup {FindProto} ELSE @ \ {FindProto}]
            /\ last' = Returned("SetNICForwarding", id, NoRoute, 0, "nil")
    /\ beforeAdd' = NoTable
    /\ setArg' = NoTable
    /\ UNCHANGED concVars
    /\ UNCHANGED <<routeTable, nicIDGen, peerNics, peerNICIDGen>>

\* AddProtocolAddress: nic.addAddress
AddProtocolAddress(id, addr) ==
    /\ IF id \notin DOMAIN nics
       THEN /\ last' = Returned("AddProtocolAddress", id, NoRoute, 0, "ErrUnknownNICID")
            /\ UNCHANGED nics
       ELSE /\ nics' = [nics EXCEPT ![id].addrs = @ \cup {addr}]
            /\ last' = Returned("AddProtocolAddress", id, NoRoute, 0, "nil")
    /\ beforeAdd' = NoTable
    /\ setArg' = NoTable
    /\ UNCHANGED concVars
    /\ UNCHANGED <<routeTable, nicIDGen, peerNics, peerNICIDGen>>

\* FindRoute(id, localAddr, remoteAddr, netProto, multicastLoop): ret is the
\* outgoing NIC of the route returned.
FindRoute(q) ==
    /\ \E r \in findRoute(nics, routeTable, handleLocal, q) :
          last' = Returned("FindRoute", 0, NoRoute, r.route.outgoingNIC, r.err)
    /\ beforeAdd' = NoTable
    /\ setArg' = NoTable
    /\ UNCHANGED concVars
    /\ UNCHANGED <<nics, routeTable, nicIDGen, peerNics, peerNICIDGen>>

\* SetNetworkProtocolOption, NetworkProtocolOption, SetTransportProtocolOption
\* and TransportProtocolOption: id is the protocol number, ret whether the
\* protocol was reached.
ProtocolOption(method, number, optErr) ==
    LET res == protocolOption(OptionMethods[method], number, optErr)
    IN  /\ last' = Returned(method, number, NoRoute, res.fwd, res.err)
        /\ beforeAdd' = NoTable
        /\ setArg' = NoTable
        /\ UNCHANGED concVars
        /\ UNCHANGED <<nics, routeTable, nicIDGen, peerNics, peerNICIDGen>>

NewEndpoint(transport, network, epErr) ==
    LET res == newEndpoint(transport, epErr)
    IN  /\ last' = Returned("NewEndpoint", transport, NoRoute, res.fwd, res.err)
        /\ beforeAdd' = NoTable
        /\ setArg' = NoTable
        /\ UNCHANGED concVars
        /\ UNCHANGED <<nics, routeTable, nicIDGen, peerNics, peerNICIDGen>>

\* AddMulticastRoute, RemoveMulticastRoute, MulticastRouteLastUsedTime,
\* EnableMulticastForwardingForProtocol and DisableMulticastForwardingForProtocol
MulticastForwarding(method, protocol, fwdErr) ==
    LET res == multicastForwarding(protocol, fwdErr)
    IN  /\ last' = Returned(method, protocol, NoRoute, res.fwd, res.err)
        /\ beforeAdd' = NoTable
        /\ setArg' = NoTable
        /\ UNCHANGED concVars
        /\ UNCHANGED <<nics, routeTable, nicIDGen, peerNics, peerNICIDGen>>

\* SetForwardingDefaultAndAllNICs(protocol, enable): order is the order in
\* which the range over s.nics visits the NICs; ret is 1 for enable.
SetForwardingDefaultAndAllNICs(protocol, on, order) ==
    LET res == setForwardingDefaultAndAllNICs(nics, defaultForwardingEnabled, order,
                                              protocol, on)
    IN  /\ nics' = res.nics
        /\ defaultForwardingEnabled' = res.dfe
        /\ last' = Returned("SetForwardingDefaultAndAllNICs", protocol, NoRoute,
                            IF on THEN 1 ELSE 0, res.err)
        /\ beforeAdd' = NoTable
        /\ setArg' = NoTable
        /\ UNCHANGED <<routeTable, nicIDGen, peerNics, peerNICIDGen>>
        /\ UNCHANGED <<mu, routeMu, cleanupEndpointsMu, cleanupEndpoints, threads, calls, demux>>
        /\ UNCHANGED <<handleLocal, rawFactory, saveRestoreEnabled, restoredEndpoints,
                       resumableEndpoints, tables, nftables, seed, tsOffsetSecret>>

SetNICMTU(id, mtu) ==
    LET res == setNICMTU(nics, id, mtu)
    IN  /\ nics' = res.nics
        /\ last' = Returned("SetNICMTU", id, NoRoute, 0, res.err)
        /\ beforeAdd' = NoTable
        /\ setArg' = NoTable
        /\ UNCHANGED concVars
        /\ UNCHANGED <<routeTable, nicIDGen, peerNics, peerNICIDGen>>

SetNICAddress(id, addr) ==
    LET res == setNICAddress(nics, id, addr)
    IN  /\ nics' = res.nics
        /\ last' = Returned("SetNICAddress", id, NoRoute, 0, res.err)
        /\ beforeAdd' = NoTable
        /\ setArg' = NoTable
        /\ UNCHANGED concVars
        /\ UNCHANGED <<routeTable, nicIDGen, peerNics, peerNICIDGen>>

\* SetNICMulticastForwarding: nic.setMulticastForwarding(protocol, enable)
SetNICMulticastForwarding(id, on) ==
    /\ IF id \notin DOMAIN nics
       THEN /\ last' = Returned("SetNICMulticastForwarding", id, NoRoute, 0, "ErrUnknownNICID")
            /\ UNCHANGED nics
       ELSE /\ nics' = [nics EXCEPT ![id].multicastForwarding = on]
            /\ last' = Returned("SetNICMulticastForwarding", id, NoRoute, 0, "nil")
    /\ beforeAdd' = NoTable
    /\ setArg' = NoTable
    /\ UNCHANGED concVars
    /\ UNCHANGED <<routeTable, nicIDGen, peerNics, peerNICIDGen>>

\* NextNICID: s.nicIDGen.Add(1); ret is the id returned. MaxNextNICID is as
\* far as the callers take the generator.
NextNICID ==
    /\ nicIDGen < MaxNextNICID
    /\ nicIDGen' = nicIDGen + 1
    /\ last' = Returned("NextNICID", 0, NoRoute, nicIDGen + 1, "nil")
    /\ beforeAdd' = NoTable
    /\ setArg' = NoTable
    /\ UNCHANGED concVars
    /\ UNCHANGED <<nics, routeTable, peerNics, peerNICIDGen>>

\* NewRawEndpoint(transport, network, waiterQueue, associated): id is the
\* transport protocol number, ret tells whether associated.
NewRawEndpoint(transport, network, associated, epErr) ==
    /\ last' = Returned("NewRawEndpoint", transport, NoRoute, IF associated THEN 1 ELSE 0,
                        newRawEndpoint(rawFactory, transport, associated, epErr))
    /\ beforeAdd' = NoTable
    /\ setArg' = NoTable
    /\ UNCHANGED concVars
    /\ UNCHANGED <<nics, routeTable, nicIDGen, peerNics, peerNICIDGen>>

\* NewPacketEndpoint(cooked, netProto, waiterQueue): id is the network
\* protocol number, ret tells whether cooked.
NewPacketEndpoint(cooked, netProto, epErr) ==
    /\ last' = Returned("NewPacketEndpoint", netProto, NoRoute, IF cooked THEN 1 ELSE 0,
                        newPacketEndpoint(rawFactory, epErr))
    /\ beforeAdd' = NoTable
    /\ setArg' = NoTable
    /\ UNCHANGED concVars
    /\ UNCHANGED <<nics, routeTable, nicIDGen, peerNics, peerNICIDGen>>

\* SetNICStack(id, peer): self tells whether peer is this stack, remErr is
\* the outcome of nic.remove(false), enableErr that of the peer's n.enable().
\* ret is the id returned.
SetNICStack(id, self, remErr, enableErr) ==
    /\ beforeAdd' = NoTable
    /\ setArg' = NoTable
    /\ UNCHANGED concVars
    /\ IF id \notin DOMAIN nics
       THEN /\ last' = Returned("SetNICStack", id, NoRoute, 0, "ErrUnknownNICID")
            /\ UNCHANGED <<nics, routeTable, nicIDGen, peerNics, peerNICIDGen>>
       ELSE IF self
       THEN /\ last' = Returned("SetNICStack", id, NoRoute, id, "nil")
            /\ UNCHANGED <<nics, routeTable, nicIDGen, peerNics, peerNICIDGen>>
       ELSE IF remErr
       THEN /\ nics' = MapDelete(nics, id)
            /\ routeTable' = removeRoutesLocked(routeTable, MatchNIC(id)).table
            /\ last' = [Returned("SetNICStack", id, NoRoute, 0, remove(FALSE, remErr).err)
                           EXCEPT !.closed = remove(FALSE, remErr).closed]
            /\ UNCHANGED <<nicIDGen, peerNics, peerNICIDGen>>
       ELSE /\ peerNICIDGen < MaxNICIDGen
            /\ nics' = MapDelete(nics, id)
            /\ routeTable' = removeRoutesLocked(routeTable, MatchNIC(id)).table
            /\ peerNICIDGen' = peerNICIDGen + 1
            /\ LET res == createNICWithOptions(peerNics, peerNICIDGen + 1,
                              [coord |-> nics[id].coord],
                              [Name |-> nics[id].name, Disabled |-> FALSE], enableErr)
               IN  /\ peerNics' = setStack(res.nics, "peer")
                   /\ last' = [Returned("SetNICStack", id, NoRoute, peerNICIDGen + 1, res.err)
                                  EXCEPT !.closed = remove(FALSE, remErr).closed]
            /\ UNCHANGED nicIDGen

\* Sorted(table): the prefix lengths never increase from front to back.
Sorted(table) ==
    \A i, j \in 1..Len(table) : i < j => Prefix(table[i]) >= Prefix(table[j])

\* All sequences over S of length at most n.
SeqsUpTo(S, n) == UNION { [1..k -> S] : k \in 0..n }

\* Routes the callers of Spec install: two prefix lengths on NIC 1, one on
\* NIC 2.
SpecRoutes == { r \in Routes : r.Gateway = 0 /\ Prefix(r) <= 8 /\ (r.NIC = 2 => Prefix(r) = 0) }

\* Routes of the tables they hand over whole: one route per NIC.
SpecSetRoutes == { r \in SpecRoutes : r.NIC = 1 <=> Prefix(r) = 8 }

\* The link endpoint NIC id is created on: that of NIC 2 is a coordinator.
EndpointOf(id) == [coord |-> id = 2]

\* The stacks handed to ReplaceConfig: a loaded Stack, its table sorted as
\* every Stack's table is and holding no route twice, its NICs as created by
\* CreateNIC.
LoadedStacks ==
    [routeTable : { t \in SeqsUpTo(SpecSetRoutes, MaxSetLen) :
                      Sorted(t) /\ \A i, j \in 1..Len(t) : t[i] = t[j] => i = j },
     nics : { setStack([i \in D |-> createdNIC([coord |-> FALSE],
                                                [Name |-> "", Disabled |-> FALSE], FALSE)],
                       "st")
                : D \in SUBSET NICIDs },
     tables : {"st"},
     nftables : {"st"},
     seed : {"st"},
     tsOffsetSecret : {"st"}]

\* The nil *Stack.
NilStack == [nil |-> TRUE]

\* Mutant of replaceNICs: the NICs stay with the stack they come from.
replaceNICs_NotOwned(m) == m

\* The NIC map ReplaceConfig builds from st.getNICs(): a fresh map that takes
\* over every nic of st, with nic.stack = s.
replaceNICs(m) == setStack(m, "s")

\* ReplaceConfig(st): a nil st panics; else s.SetRouteTable(st.GetRouteTable()),
\* then under mu the fresh NIC map, one NextNICID per nic, and the tables of st.
ReplaceConfig(st) ==
    /\ IF st = NilStack
       THEN /\ last' = Returned("ReplaceConfig", 0, NoRoute, 0, "panic")
            /\ UNCHANGED <<nics, routeTable, nicIDGen, tables, nftables>>
       ELSE /\ nicIDGen + Cardinality(DOMAIN st.nics) <= MaxNICIDGen
            /\ routeTable' = setRouteTable(st.routeTable)
            /\ nics' = replaceNICs(st.nics)
            /\ nicIDGen' = nicIDGen + Cardinality(DOMAIN st.nics)
            /\ tables' = st.tables
            /\ nftables' = st.nftables
            /\ last' = Returned("ReplaceConfig", 0, NoRoute, 0, "nil")
    /\ beforeAdd' = NoTable
    /\ setArg' = NoTable
    /\ UNCHANGED <<mu, routeMu, cleanupEndpointsMu, cleanupEndpoints, threads, calls, demux>>
    /\ UNCHANGED <<defaultForwardingEnabled, handleLocal, rawFactory, saveRestoreEnabled, restoredEndpoints,
                   resumableEndpoints, seed, tsOffsetSecret>>
    /\ UNCHANGED <<peerNics, peerNICIDGen>>

\* Inputs of the sequential callers. Their link endpoints attach without
\* error: a failing n.enable() is an input of SpecNIC.
NICOptionsIn == [Name : {""}, Disabled : {FALSE}]

SpecMatchers == { m \in Matchers : m.kind = "eq" => m.route \in SpecRoutes }

Next ==
    \/ \E table \in SeqsUpTo(SpecSetRoutes, MaxSetLen) \cup {routeTable} : SetRouteTable(table)
    \/ \E route \in SpecRoutes : AddRoute(route)
    \/ \E m \in SpecMatchers : RemoveRoutes(m)
    \/ \E route \in SpecRoutes : ReplaceRoute(route)
    \/ \E id \in NICIDs \cup {0}, opts \in NICOptionsIn :
          CreateNICWithOptions(id, EndpointOf(id), opts, FALSE)
    \/ \E id \in NICIDs, delErr \in BOOLEAN, remErr \in BOOLEAN : RemoveNIC(id, delErr, remErr)
    \/ \E id \in NICIDs, mid \in NICIDs, addErr \in BOOLEAN : SetNICCoordinator(id, mid, addErr)
    \/ \E id \in NICIDs, self \in BOOLEAN, remErr \in BOOLEAN :
          SetNICStack(id, self, remErr, FALSE)
    \/ \E st \in LoadedStacks : ReplaceConfig(st)

Spec == Init /\ [][Next]_vars

(***************************************************************************)
(* SpecRT: the route table alone.                                          *)
(***************************************************************************)
\* Routes the callers of SpecRT install: three prefix lengths on NIC 1, and
\* for the /8 a second gateway (Equal, not identical) and a second NIC (same
\* prefix length, not Equal).
RTRoutes ==
    { r \in Routes : \/ r.NIC = 1 /\ r.Gateway = 0
                     \/ Prefix(r) = 8 /\ (r.NIC = 1 \/ r.Gateway = 0) }

\* Routes of the tables handed to SetRouteTable by the callers of SpecRT.
SetRoutes == { r \in RTRoutes : r.NIC = 1 /\ Prefix(r) <= 8 }

RTMatchers == { m \in Matchers : m.kind = "eq" => m.route \in RTRoutes }

NextRT ==
    \/ \E table \in SeqsUpTo(SetRoutes, MaxRoutes) \cup {routeTable} : SetRouteTable(table)
    \/ \E route \in RTRoutes : AddRoute(route)
    \/ \E m \in RTMatchers : RemoveRoutes(m)
    \/ \E route \in RTRoutes : ReplaceRoute(route)

SpecRT == Init /\ [][NextRT]_vars

(***************************************************************************)
(* SpecNIC: the NIC map, with named NICs.                                  *)
(***************************************************************************)
\* NIC names the callers use; "" is the name of an unnamed NIC.
Names == {"", "eth0"}

\* No two NICs of the NIC map m have the same non-empty name.
UniqueNames(m) ==
    \A i, j \in DOMAIN m : (m[i].name # "" /\ m[i].name = m[j].name) => i = j

\* The loaded stacks handed to ReplaceConfig by the callers of SpecNIC: their
\* NICs are named, uniquely.
NamedStacks ==
    { st \in [routeTable : {<<>>},
              nics : UNION { [D -> { [createdNIC([coord |-> FALSE],
                                                 [Name |-> n, Disabled |-> FALSE], FALSE)
                                         EXCEPT !.stack = "st"]
                                       : n \in Names }]
                             : D \in SUBSET NICIDs },
              tables : {"st"},
              nftables : {"st"}] :
        UniqueNames(st.nics) }

NextNIC ==
    \/ \E route \in { r \in SpecSetRoutes : r.NIC = 1 } : AddRoute(route)
    \/ \E id \in NICIDs \cup {0}, opts \in [Name : Names, Disabled : BOOLEAN],
          enableErr \in BOOLEAN :
          CreateNICWithOptions(id, EndpointOf(id), opts, enableErr)
    \/ \E id \in NICIDs \cup {0}, enableErr \in BOOLEAN : CreateNIC(id, EndpointOf(id), enableErr)
    \/ \E id \in NICIDs, name \in Names : SetNICName(id, name)
    \/ \E id \in NICIDs, delErr \in BOOLEAN, remErr \in BOOLEAN : RemoveNIC(id, delErr, remErr)
    \/ \E id \in NICIDs, self \in BOOLEAN, remErr \in BOOLEAN :
          SetNICStack(id, self, remErr, FALSE)
    \/ \E st \in NamedStacks : ReplaceConfig(st)

SpecNIC == Init /\ [][NextNIC]_vars

(***************************************************************************)
(* SpecEnable: NICs created enabled, disabled and with enable() failing.   *)
(***************************************************************************)
EnableOptions == [Name : Names, Disabled : BOOLEAN]

NextEnable ==
    \/ \E id \in NICIDs \cup {0}, opts \in EnableOptions, enableErr \in BOOLEAN :
          CreateNICWithOptions(id, EndpointOf(id), opts, enableErr)
    \/ \E id \in NICIDs, enableErr \in BOOLEAN : EnableNIC(id, enableErr)
    \/ \E id \in NICIDs : DisableNIC(id)
    \/ \E id \in NICIDs : RemoveNIC(id, FALSE, FALSE)

SpecEnable == Init /\ [][NextEnable]_vars

(***************************************************************************)
(* SpecCreate: NIC creation on ids and names free and taken.               *)
(***************************************************************************)
NextCreate ==
    \/ \E route \in { r \in SpecSetRoutes : r.NIC = 1 } : AddRoute(route)
    \/ \E id \in NICIDs \cup {0}, opts \in [Name : Names, Disabled : BOOLEAN],
          enableErr \in BOOLEAN :
          CreateNICWithOptions(id, EndpointOf(id), opts, enableErr)
    \/ \E id \in NICIDs \cup {0}, enableErr \in BOOLEAN : CreateNIC(id, EndpointOf(id), enableErr)
    \/ \E id \in NICIDs, delErr \in BOOLEAN, remErr \in BOOLEAN : RemoveNIC(id, delErr, remErr)

SpecCreate == Init /\ [][NextCreate]_vars

(***************************************************************************)
(* SpecMut: the NIC-addressed mutators, on ids present and absent.         *)
(***************************************************************************)
\* The methods that take a NIC id and change the NIC.
NICMutators ==
    {"EnableNIC", "DisableNIC", "SetNICName", "SetNICMTU", "SetNICAddress",
     "SetNICCoordinator", "SetNICForwarding", "SetNICMulticastForwarding",
     "RemoveNIC", "SetNICStack"}

\* The NIC whose fields the callers set; NIC 2 is a coordinator for it.
MutIDs == {1}

NextMut ==
    \/ \E route \in { r \in SpecSetRoutes : r.NIC = 1 } : AddRoute(route)
    \/ \E id \in NICIDs :
          CreateNICWithOptions(id, EndpointOf(id), [Name |-> "", Disabled |-> TRUE], FALSE)
    \/ \E id \in MutIDs, enableErr \in BOOLEAN : EnableNIC(id, enableErr)
    \/ \E id \in MutIDs : DisableNIC(id)
    \/ \E id \in MutIDs : SetNICName(id, "eth0")
    \/ \E id \in MutIDs : SetNICMTU(id, "1500")
    \/ \E id \in MutIDs : SetNICAddress(id, "02:00:00:00:00:01")
    \/ \E id \in NICIDs, mid \in NICIDs, addErr \in BOOLEAN : SetNICCoordinator(id, mid, addErr)
    \/ \E id \in MutIDs : SetNICForwarding(id, TRUE)
    \/ \E id \in MutIDs : SetNICMulticastForwarding(id, TRUE)
    \/ \E id \in NICIDs, delErr \in BOOLEAN, remErr \in BOOLEAN : RemoveNIC(id, delErr, remErr)
    \/ \E id \in MutIDs, self \in BOOLEAN, remErr \in BOOLEAN :
          SetNICStack(id, self, remErr, FALSE)

SpecMut == Init /\ [][NextMut]_vars

(***************************************************************************)
(* SpecMove: SetNICStack on stacks with named NICs and routes.             *)
(***************************************************************************)
NextMove ==
    \/ \E route \in SpecSetRoutes : AddRoute(route)
    \/ \E id \in NICIDs, name \in Names :
          CreateNICWithOptions(id, EndpointOf(id), [Name |-> name, Disabled |-> FALSE], FALSE)
    \/ \E id \in NICIDs, self \in BOOLEAN, remErr \in BOOLEAN, enableErr \in BOOLEAN :
          SetNICStack(id, self, remErr, enableErr)

SpecMove == Init /\ [][NextMove]_vars

(***************************************************************************)
(* SpecRaw: raw and packet endpoints on stacks built with and without a    *)
(* raw factory.                                                            *)
(***************************************************************************)
\* The network protocol numbers callers pass: IPv4, IPv6 and one that is not
\* registered.
NetworkNumbers == {4, 6, 99}

\* The errors of the factory and of the protocol.
EndpointErrors == {"nil", "ErrNotSupported"}

InitRaw == \E rf \in BOOLEAN : New([HandleLocal |-> FALSE, RawFactory |-> rf])

NextRaw ==
    \/ \E route \in SpecSetRoutes : AddRoute(route)
    \/ \E id \in NICIDs, opts \in NICOptionsIn :
          CreateNICWithOptions(id, EndpointOf(id), opts, FALSE)
    \/ \E transport \in TransportNumbers, network \in NetworkNumbers,
          associated \in BOOLEAN, epErr \in EndpointErrors :
          NewRawEndpoint(transport, network, associated, epErr)
    \/ \E cooked \in BOOLEAN, netProto \in NetworkNumbers, epErr \in EndpointErrors :
          NewPacketEndpoint(cooked, netProto, epErr)

SpecRaw == InitRaw /\ [][NextRaw]_vars

(***************************************************************************)
(* SpecFind: FindRoute on the stacks that CreateNICWithOptions, the NIC    *)
(* mutators and SetRouteTable build, with either value of handleLocal.     *)
(***************************************************************************)
\* The routes of the tables: through a gateway, two subnets per NIC.
FindRoutes == { r \in Routes : r.Gateway = 1 /\ Prefix(r) <= 8 }

\* The tables handed to SetRouteTable: at most one route per NIC.
FindTables ==
    { t \in SeqsUpTo(FindRoutes, Cardinality(NICIDs)) :
        \A i, j \in 1..Len(t) : t[i].NIC = t[j].NIC => i = j }

\* The address a caller assigns to NIC id.
AddressOf(id) == IF id = 1 THEN "g1" ELSE "ll"

\* The calls of FindRoute.
Queries ==
    [id : NICIDs \cup {0}, localAddr : {"", "g1", "ll"},
     remoteAddr : {"", "g1", "g2", "mc", "bc", "ll", "lo4", "lo6"},
     netOK : BOOLEAN, crossOK : BOOLEAN]

\* What FindRoute(q) may return in the current state.
Results(q) == findRoute(nics, routeTable, handleLocal, q)

InitFind == \E hl \in BOOLEAN : New([HandleLocal |-> hl, RawFactory |-> TRUE])

NextFind ==
    \/ \E table \in FindTables : SetRouteTable(table)
    \/ \E id \in NICIDs, disabled \in BOOLEAN :
          CreateNICWithOptions(id, EndpointOf(id), [Name |-> "", Disabled |-> disabled], FALSE)
    \/ \E id \in NICIDs, enableErr \in BOOLEAN : EnableNIC(id, enableErr)
    \/ \E id \in NICIDs : DisableNIC(id)
    \/ \E id \in NICIDs, on \in BOOLEAN : SetNICForwarding(id, on)
    \/ \E id \in NICIDs : AddProtocolAddress(id, AddressOf(id))
    \/ \E q \in Queries : FindRoute(q)

SpecFind == InitFind /\ [][NextFind]_vars

(***************************************************************************)
(* SpecProto: the operations keyed by a protocol number, on stacks with    *)
(* NICs, addresses and routes.                                             *)
(***************************************************************************)
\* What a protocol answers to an option, a new endpoint or a multicast
\* forwarding call.
ProtocolErrors == {"nil", "ErrInvalidOptionValue"}

\* The calls of FindRoute, to the address of NIC 1 and beyond.
ProtoQueries ==
    { q \in Queries : q.localAddr = "" /\ q.remoteAddr \in {"g1", "g2", "lo4"} /\ q.crossOK }

NextProto ==
    \/ \E table \in FindTables : SetRouteTable(table)
    \/ \E id \in NICIDs : CreateNICWithOptions(id, EndpointOf(id), [Name |-> "", Disabled |-> FALSE], FALSE)
    \/ AddProtocolAddress(1, AddressOf(1))
    \/ \E q \in ProtoQueries : FindRoute(q)
    \/ \E method \in DOMAIN OptionMethods, number \in NetworkNumbers \cup TransportNumbers,
          optErr \in ProtocolErrors :
          ProtocolOption(method, number, optErr)
    \/ \E transport \in TransportNumbers, network \in NetworkNumbers, epErr \in ProtocolErrors :
          NewEndpoint(transport, network, epErr)
    \/ \E method \in MulticastMethods, protocol \in NetworkNumbers, fwdErr \in ProtocolErrors :
          MulticastForwarding(method, protocol, fwdErr)

SpecProto == InitFind /\ [][NextProto]_vars

(***************************************************************************)
(* SpecFwd: the forwarding default next to NIC creation and removal.       *)
(***************************************************************************)
\* The NIC ids of SpecFwd: NIC 2 does not forward, the others do.
FwdNICs == {1, 2, 3}

NextFwd ==
    \/ \E id \in FwdNICs, disabled \in BOOLEAN, enableErr \in BOOLEAN :
          CreateNICWithOptions(id, EndpointOf(id), [Name |-> "", Disabled |-> disabled],
                               enableErr)
    \/ \E id \in FwdNICs : RemoveNIC(id, FALSE, FALSE)
    \/ \E id \in FwdNICs, on \in BOOLEAN : SetNICForwarding(id, on)
    \/ \E protocol \in NetworkNumbers, on \in BOOLEAN, order \in Orders(DOMAIN nics) :
          SetForwardingDefaultAndAllNICs(protocol, on, order)

SpecFwd == Init /\ [][NextFwd]_vars

(***************************************************************************)
(* SpecConc: goroutines call the methods concurrently; a step runs from    *)
(* one lock call to the next.                                              *)
(***************************************************************************)
\* Calls the goroutines make, all together.
MaxCalls == 3

\* Routes, tables, matchers, link endpoints and stacks of the concurrent
\* callers.
ConcRoutes == SpecSetRoutes

ConcTables == SeqsUpTo({ r \in ConcRoutes : r.NIC = 1 }, 1)

ConcMatchers == { m \in Matchers : m.kind \in {"nic", "all"} }

ConcStacks == { st \in LoadedStacks : Cardinality(DOMAIN st.nics) <= 1 }

TransportEndpoints == {"e1"}

\* Network protocols and transport endpoint ids of the registrations.
NetProtos == {4, 6}

EndpointIDs == {1, 2}

\* The transport endpoint arguments of the concurrent callers.
ConcArgs == [nets : {NetProtos}, id : {1}, eps : { {e} : e \in TransportEndpoints }]

\* t is outside the stack and may call.
MayCall(t) == threads[t].pc = "idle" /\ calls < MaxCalls

\* t is at pc and not blocked in a lock call.
At(t, pc) == threads[t].pc = pc /\ threads[t].want = "none"

\* The goroutines inside one of the methods fns.
Inside(fns) == { u \in Threads : threads[u].fn \in fns }

\* The lock call t is blocked in returns.
Acquire(t) ==
    LET want == threads[t].want
    IN  /\ want # "none"
        /\ threads' = [threads EXCEPT ![t].want = "none"]
        /\ CASE want = "mu.Lock" ->
                  /\ CanLock(mu, t)
                  /\ mu' = Lock(mu, t)
                  /\ UNCHANGED <<routeMu, cleanupEndpointsMu>>
             [] want = "mu.RLock" ->
                  /\ CanRLock(mu)
                  /\ mu' = RLock(mu, t)
                  /\ UNCHANGED <<routeMu, cleanupEndpointsMu>>
             [] want = "routeMu.Lock" ->
                  /\ CanLock(routeMu, t)
                  /\ routeMu' = Lock(routeMu, t)
                  /\ UNCHANGED <<mu, cleanupEndpointsMu>>
             [] want = "routeMu.RLock" ->
                  /\ CanRLock(routeMu)
                  /\ routeMu' = RLock(routeMu, t)
                  /\ UNCHANGED <<mu, cleanupEndpointsMu>>
             [] want = "cleanupEndpointsMu.Lock" ->
                  /\ CanLock(cleanupEndpointsMu, t)
                  /\ cleanupEndpointsMu' = Lock(cleanupEndpointsMu, t)
                  /\ UNCHANGED <<mu, routeMu>>
        /\ UNCHANGED <<nics, routeTable, nicIDGen, peerNics, peerNICIDGen, cleanupEndpoints>>
        /\ UNCHANGED <<restVars, histVars, calls, demux>>

\* The Lock() call t is blocked in finds readers inside: from now on no new
\* reader gets in.
Announce(t) ==
    /\ \/ /\ threads[t].want = "mu.Lock"
          /\ CanAnnounce(mu)
          /\ mu' = [mu EXCEPT !.p = t]
          /\ UNCHANGED routeMu
       \/ /\ threads[t].want = "routeMu.Lock"
          /\ CanAnnounce(routeMu)
          /\ routeMu' = [routeMu EXCEPT !.p = t]
          /\ UNCHANGED mu
    /\ UNCHANGED <<nics, routeTable, nicIDGen, peerNics, peerNICIDGen>>
    /\ UNCHANGED <<cleanupEndpointsMu, cleanupEndpoints, threads>>
    /\ UNCHANGED <<restVars, histVars, calls, demux>>

\* AddRoute: s.routeMu.Lock()
AddRouteCall(t) ==
    /\ MayCall(t)
    /\ Len(routeTable) + Cardinality(Inside({"AddRoute", "ReplaceRoute"})) < MaxRoutes
    /\ threads' = [threads EXCEPT ![t] = Called(@, "AddRoute", "routeMu.Lock", 0)]
    /\ UNCHANGED <<nics, routeTable, nicIDGen, peerNics, peerNICIDGen>>
    /\ UNCHANGED <<mu, routeMu, cleanupEndpointsMu, cleanupEndpoints>>
    /\ calls' = calls + 1
    /\ UNCHANGED <<restVars, histVars, demux>>

\* AddRoute: s.addRouteLocked(route) and the deferred s.routeMu.Unlock()
AddRouteBody(t) ==
    /\ At(t, "AddRoute")
    /\ \E route \in ConcRoutes : routeTable' = addRouteLocked(routeTable, route)
    /\ routeMu' = Unlock(routeMu)
    /\ threads' = [threads EXCEPT ![t] = Return(@)]
    /\ UNCHANGED <<nics, nicIDGen, peerNics, peerNICIDGen>>
    /\ UNCHANGED <<mu, cleanupEndpointsMu, cleanupEndpoints>>
    /\ UNCHANGED <<restVars, histVars, calls, demux>>

\* SetRouteTable: s.routeMu.Lock()
SetRouteTableCall(t) ==
    /\ MayCall(t)
    /\ threads' = [threads EXCEPT ![t] = Called(@, "SetRouteTable", "routeMu.Lock", 0)]
    /\ UNCHANGED <<nics, routeTable, nicIDGen, peerNics, peerNICIDGen>>
    /\ UNCHANGED <<mu, routeMu, cleanupEndpointsMu, cleanupEndpoints>>
    /\ calls' = calls + 1
    /\ UNCHANGED <<restVars, histVars, demux>>

\* SetRouteTable: Reset, the addRouteLocked loop and the deferred Unlock
SetRouteTableBody(t) ==
    /\ At(t, "SetRouteTable")
    /\ \E table \in ConcTables : routeTable' = setRouteTable(table)
    /\ routeMu' = Unlock(routeMu)
    /\ threads' = [threads EXCEPT ![t] = Return(@)]
    /\ UNCHANGED <<nics, nicIDGen, peerNics, peerNICIDGen>>
    /\ UNCHANGED <<mu, cleanupEndpointsMu, cleanupEndpoints>>
    /\ UNCHANGED <<restVars, histVars, calls, demux>>

\* GetRouteTable: s.routeMu.RLock()
GetRouteTableCall(t) ==
    /\ MayCall(t)
    /\ threads' = [threads EXCEPT ![t] = Called(@, "GetRouteTable", "routeMu.RLock", 0)]
    /\ UNCHANGED <<nics, routeTable, nicIDGen, peerNics, peerNICIDGen>>
    /\ UNCHANGED <<mu, routeMu, cleanupEndpointsMu, cleanupEndpoints>>
    /\ calls' = calls + 1
    /\ UNCHANGED <<restVars, histVars, demux>>

\* GetRouteTable: the copy of the table and the deferred s.routeMu.RUnlock()
GetRouteTableBody(t) ==
    /\ At(t, "GetRouteTable")
    /\ routeMu' = RUnlock(routeMu, t)
    /\ threads' = [threads EXCEPT ![t] = Return(@)]
    /\ UNCHANGED <<nics, routeTable, nicIDGen, peerNics, peerNICIDGen>>
    /\ UNCHANGED <<mu, cleanupEndpointsMu, cleanupEndpoints>>
    /\ UNCHANGED <<restVars, histVars, calls, demux>>

\* RemoveRoutes: s.routeMu.Lock()
RemoveRoutesCall(t) ==
    /\ MayCall(t)
    /\ threads' = [threads EXCEPT ![t] = Called(@, "RemoveRoutes", "routeMu.Lock", 0)]
    /\ UNCHANGED <<nics, routeTable, nicIDGen, peerNics, peerNICIDGen>>
    /\ UNCHANGED <<mu, routeMu, cleanupEndpointsMu, cleanupEndpoints>>
    /\ calls' = calls + 1
    /\ UNCHANGED <<restVars, histVars, demux>>

\* Mutant of RemoveRoutesBody: under routeMu the method goes on to look at
\* the NIC map, which starts with s.mu.RLock().
RemoveRoutesBody_ThenMu(t) ==
    /\ At(t, "RemoveRoutes")
    /\ \E m \in ConcMatchers : routeTable' = removeRoutesLocked(routeTable, m).table
    /\ threads' = [threads EXCEPT ![t] = Goto(@, "RemoveRoutes.nics", "mu.RLock")]
    /\ UNCHANGED <<nics, nicIDGen, peerNics, peerNICIDGen>>
    /\ UNCHANGED <<mu, routeMu, cleanupEndpointsMu, cleanupEndpoints>>
    /\ UNCHANGED <<restVars, histVars, calls, demux>>

\* RemoveRoutes: s.removeRoutesLocked(match) and the deferred Unlock
RemoveRoutesBody(t) ==
    /\ At(t, "RemoveRoutes")
    /\ \E m \in ConcMatchers : routeTable' = removeRoutesLocked(routeTable, m).table
    /\ routeMu' = Unlock(routeMu)
    /\ threads' = [threads EXCEPT ![t] = Return(@)]
    /\ UNCHANGED <<nics, nicIDGen, peerNics, peerNICIDGen>>
    /\ UNCHANGED <<mu, cleanupEndpointsMu, cleanupEndpoints>>
    /\ UNCHANGED <<restVars, histVars, calls, demux>>

\* ReplaceRoute: s.routeMu.Lock()
ReplaceRouteCall(t) ==
    /\ MayCall(t)
    /\ Len(routeTable) + Cardinality(Inside({"AddRoute", "ReplaceRoute"})) < MaxRoutes
    /\ threads' = [threads EXCEPT ![t] = Called(@, "ReplaceRoute", "routeMu.Lock", 0)]
    /\ UNCHANGED <<nics, routeTable, nicIDGen, peerNics, peerNICIDGen>>
    /\ UNCHANGED <<mu, routeMu, cleanupEndpointsMu, cleanupEndpoints>>
    /\ calls' = calls + 1
    /\ UNCHANGED <<restVars, histVars, demux>>

\* ReplaceRoute: removeRoutesLocked, addRouteLocked and the deferred Unlock
ReplaceRouteBody(t) ==
    /\ At(t, "ReplaceRoute")
    /\ \E route \in ConcRoutes : routeTable' = replaceRoute(routeTable, route)
    /\ routeMu' = Unlock(routeMu)
    /\ threads' = [threads EXCEPT ![t] = Return(@)]
    /\ UNCHANGED <<nics, nicIDGen, peerNics, peerNICIDGen>>
    /\ UNCHANGED <<mu, cleanupEndpointsMu, cleanupEndpoints>>
    /\ UNCHANGED <<restVars, histVars, calls, demux>>

\* CreateNICWithOptions: s.mu.Lock()
CreateNICCall(t) ==
    /\ MayCall(t)
    /\ threads' = [threads EXCEPT ![t] = Called(@, "CreateNICWithOptions", "mu.Lock", 0)]
    /\ UNCHANGED <<nics, routeTable, nicIDGen, peerNics, peerNICIDGen>>
    /\ UNCHANGED <<mu, routeMu, cleanupEndpointsMu, cleanupEndpoints>>
    /\ calls' = calls + 1
    /\ UNCHANGED <<restVars, histVars, demux>>

\* CreateNICWithOptions: the checks, newNIC, s.nics[id] = n, SetOnCloseAction,
\* n.enable() and the deferred s.mu.Unlock()
CreateNICBody(t) ==
    /\ At(t, "CreateNICWithOptions")
    /\ \E id \in NICIDs, opts \in NICOptionsIn :
          nics' = withDefaultForwarding(
                      nics, createNICWithOptions(nics, id, EndpointOf(id), opts, FALSE),
                      id, defaultForwardingEnabled).nics
    /\ mu' = Unlock(mu)
    /\ threads' = [threads EXCEPT ![t] = Return(@)]
    /\ UNCHANGED <<routeTable, nicIDGen, peerNics, peerNICIDGen>>
    /\ UNCHANGED <<routeMu, cleanupEndpointsMu, cleanupEndpoints>>
    /\ UNCHANGED <<restVars, histVars, calls, demux>>

\* SetNICCoordinator: s.mu.Lock()
SetNICCoordinatorCall(t) ==
    /\ MayCall(t)
    /\ threads' = [threads EXCEPT ![t] = Called(@, "SetNICCoordinator", "mu.Lock", 0)]
    /\ UNCHANGED <<nics, routeTable, nicIDGen, peerNics, peerNICIDGen>>
    /\ UNCHANGED <<mu, routeMu, cleanupEndpointsMu, cleanupEndpoints>>
    /\ calls' = calls + 1
    /\ UNCHANGED <<restVars, histVars, demux>>

\* SetNICCoordinator: the lookups, AddNIC, nic.Primary = m and the deferred
\* s.mu.Unlock()
SetNICCoordinatorBody(t) ==
    /\ At(t, "SetNICCoordinator")
    /\ \E id \in NICIDs, mid \in NICIDs, addErr \in BOOLEAN :
          nics' = setNICCoordinator(nics, id, mid, addErr).nics
    /\ mu' = Unlock(mu)
    /\ threads' = [threads EXCEPT ![t] = Return(@)]
    /\ UNCHANGED <<routeTable, nicIDGen, peerNics, peerNICIDGen>>
    /\ UNCHANGED <<routeMu, cleanupEndpointsMu, cleanupEndpoints>>
    /\ UNCHANGED <<restVars, histVars, calls, demux>>

\* FindRoute: s.mu.RLock()
FindRouteCall(t) ==
    /\ MayCall(t)
    /\ threads' = [threads EXCEPT ![t] = Called(@, "FindRoute", "mu.RLock", 0)]
    /\ UNCHANGED <<nics, routeTable, nicIDGen, peerNics, peerNICIDGen>>
    /\ UNCHANGED <<mu, routeMu, cleanupEndpointsMu, cleanupEndpoints>>
    /\ calls' = calls + 1
    /\ UNCHANGED <<restVars, histVars, demux>>

\* FindRoute under mu: it returns before the route table is looked at (the
\* deferred s.mu.RUnlock() runs), or it reaches s.routeMu.RLock().
FindRouteChecks(t) ==
    /\ At(t, "FindRoute")
    /\ \/ /\ mu' = RUnlock(mu, t)
          /\ threads' = [threads EXCEPT ![t] = Return(@)]
       \/ /\ threads' = [threads EXCEPT ![t] = Goto(@, "FindRoute.scan", "routeMu.RLock")]
          /\ UNCHANGED mu
    /\ UNCHANGED <<nics, routeTable, nicIDGen, peerNics, peerNICIDGen>>
    /\ UNCHANGED <<routeMu, cleanupEndpointsMu, cleanupEndpoints>>
    /\ UNCHANGED <<restVars, histVars, calls, demux>>

\* The NICs of the routes the walk of FindRoute can remember in chosenRoute:
\* the NIC is in the NIC map, enabled and forwarding netProto.
Choosable(m, table) ==
    { table[i].NIC : i \in { j \in 1..Len(table) :
                               /\ table[j].NIC \in DOMAIN m
                               /\ m[table[j].NIC].enabled
                               /\ isNICForwarding(m[table[j].NIC], FindProto) } }

\* Mutant of FindRouteScan: s.mu is released with s.routeMu.
FindRouteScan_ReleaseMu(t) ==
    /\ At(t, "FindRoute.scan")
    /\ routeMu' = RUnlock(routeMu, t)
    /\ mu' = RUnlock(mu, t)
    /\ \E chosen \in {0} \cup Choosable(nics, routeTable) :
          threads' = [threads EXCEPT ![t] = [Goto(@, "FindRoute.chosen", "none")
                                                EXCEPT !.id = chosen]]
    /\ UNCHANGED <<nics, routeTable, nicIDGen, peerNics, peerNICIDGen>>
    /\ UNCHANGED <<cleanupEndpointsMu, cleanupEndpoints>>
    /\ UNCHANGED <<restVars, histVars, calls, demux>>

\* FindRoute: the walk over the route table and the deferred
\* s.routeMu.RUnlock() of the closure. id keeps chosenRoute.NIC, 0 when the
\* walk remembered no route or returned one.
FindRouteScan(t) ==
    /\ At(t, "FindRoute.scan")
    /\ routeMu' = RUnlock(routeMu, t)
    /\ \E chosen \in {0} \cup Choosable(nics, routeTable) :
          threads' = [threads EXCEPT ![t] = [Goto(@, "FindRoute.chosen", "none")
                                                EXCEPT !.id = chosen]]
    /\ UNCHANGED <<nics, routeTable, nicIDGen, peerNics, peerNICIDGen>>
    /\ UNCHANGED <<mu, cleanupEndpointsMu, cleanupEndpoints>>
    /\ UNCHANGED <<restVars, histVars, calls, demux>>

\* FindRoute after the walk: nic, ok := s.nics[chosenRoute.NIC] panics when the
\* NIC is not in the map, and the goroutine stays there; else the rest of the
\* method and the deferred s.mu.RUnlock()
FindRouteReturn(t) ==
    /\ At(t, "FindRoute.chosen")
    /\ mu' = RUnlock(mu, t)
    /\ threads' = [threads EXCEPT ![t] =
                      IF @.id # 0 /\ @.id \notin DOMAIN nics
                      THEN Goto(@, "panic", "none")
                      ELSE Return(@)]
    /\ UNCHANGED <<nics, routeTable, nicIDGen, peerNics, peerNICIDGen>>
    /\ UNCHANGED <<routeMu, cleanupEndpointsMu, cleanupEndpoints>>
    /\ UNCHANGED <<restVars, histVars, calls, demux>>

\* The endpoint of a call that has one.
TheEp(a) == CHOOSE e \in a.eps : TRUE

\* RegisterTransportEndpoint: s.demux.registerEndpoint(...)
RegisterTransportEndpoint(t, a) ==
    /\ MayCall(t)
    /\ demux' = registerEndpoint(demux, a.nets, a.id, TheEp(a)).demux
    /\ calls' = calls + 1
    /\ UNCHANGED <<nics, routeTable, nicIDGen, peerNics, peerNICIDGen>>
    /\ UNCHANGED <<mu, routeMu, cleanupEndpointsMu, cleanupEndpoints, threads>>
    /\ UNCHANGED <<restVars, histVars>>

\* UnregisterTransportEndpoint: s.demux.unregisterEndpoint(...)
UnregisterTransportEndpoint(t, a) ==
    /\ MayCall(t)
    /\ demux' = unregisterEndpoint(demux, a.nets, a.id, TheEp(a))
    /\ calls' = calls + 1
    /\ UNCHANGED <<nics, routeTable, nicIDGen, peerNics, peerNICIDGen>>
    /\ UNCHANGED <<mu, routeMu, cleanupEndpointsMu, cleanupEndpoints, threads>>
    /\ UNCHANGED <<restVars, histVars>>

\* FindTransportEndpoint: s.demux.findTransportEndpoint(...), a read.
FindTransportEndpoint(t, net, id) ==
    /\ MayCall(t)
    /\ findTransportEndpoint(demux, net, id) \in RegisteredEndpoints(demux) \cup {"nil"}
    /\ calls' = calls + 1
    /\ UNCHANGED <<nics, routeTable, nicIDGen, peerNics, peerNICIDGen>>
    /\ UNCHANGED <<mu, routeMu, cleanupEndpointsMu, cleanupEndpoints, threads, demux>>
    /\ UNCHANGED <<restVars, histVars>>

\* StartTransportEndpointCleanup: s.cleanupEndpointsMu.Lock()
StartCleanupCall(t, a) ==
    /\ MayCall(t)
    /\ threads' = [threads EXCEPT ![t] =
                      [Called(@, "StartTransportEndpointCleanup", "cleanupEndpointsMu.Lock", 0)
                          EXCEPT !.arg = a]]
    /\ UNCHANGED <<nics, routeTable, nicIDGen, peerNics, peerNICIDGen>>
    /\ UNCHANGED <<mu, routeMu, cleanupEndpointsMu, cleanupEndpoints>>
    /\ calls' = calls + 1
    /\ UNCHANGED <<restVars, histVars, demux>>

\* Mutant of StartCleanupBody: the endpoint is unregistered before it is in
\* the cleanup set.
StartCleanupBody_UnregisterFirst(t) ==
    /\ At(t, "StartTransportEndpointCleanup")
    /\ LET a == threads[t].arg
       IN  demux' = unregisterEndpoint(demux, a.nets, a.id, TheEp(a))
    /\ cleanupEndpointsMu' = Unlock(cleanupEndpointsMu)
    /\ threads' = [threads EXCEPT ![t].pc = "StartTransportEndpointCleanup.unregister"]
    /\ UNCHANGED <<nics, routeTable, nicIDGen, peerNics, peerNICIDGen>>
    /\ UNCHANGED <<mu, routeMu, cleanupEndpoints>>
    /\ UNCHANGED <<restVars, histVars, calls>>

\* StartTransportEndpointCleanup: s.cleanupEndpoints[ep] = struct{}{} and the
\* Unlock
StartCleanupBody(t) ==
    /\ At(t, "StartTransportEndpointCleanup")
    /\ cleanupEndpoints' = cleanupEndpoints \cup {TheEp(threads[t].arg)}
    /\ cleanupEndpointsMu' = Unlock(cleanupEndpointsMu)
    /\ threads' = [threads EXCEPT ![t].pc = "StartTransportEndpointCleanup.unregister"]
    /\ UNCHANGED <<nics, routeTable, nicIDGen, peerNics, peerNICIDGen>>
    /\ UNCHANGED <<mu, routeMu>>
    /\ UNCHANGED <<restVars, histVars, calls, demux>>

\* Mutant of StartCleanupUnregister: the endpoint stays registered.
StartCleanupUnregister_Skip(t) ==
    /\ At(t, "StartTransportEndpointCleanup.unregister")
    /\ threads' = [threads EXCEPT ![t] = Return(@)]
    /\ UNCHANGED <<nics, routeTable, nicIDGen, peerNics, peerNICIDGen>>
    /\ UNCHANGED <<mu, routeMu, cleanupEndpointsMu, cleanupEndpoints>>
    /\ UNCHANGED <<restVars, histVars, calls, demux>>

\* StartTransportEndpointCleanup: s.demux.unregisterEndpoint(...), outside the
\* lock
StartCleanupUnregister(t) ==
    /\ At(t, "StartTransportEndpointCleanup.unregister")
    /\ LET a == threads[t].arg
       IN  demux' = unregisterEndpoint(demux, a.nets, a.id, TheEp(a))
    /\ threads' = [threads EXCEPT ![t] = Return(@)]
    /\ UNCHANGED <<nics, routeTable, nicIDGen, peerNics, peerNICIDGen>>
    /\ UNCHANGED <<mu, routeMu, cleanupEndpointsMu, cleanupEndpoints>>
    /\ UNCHANGED <<restVars, histVars, calls>>

\* CompleteTransportEndpointCleanup: s.cleanupEndpointsMu.Lock()
CompleteCleanupCall(t, a) ==
    /\ MayCall(t)
    /\ threads' = [threads EXCEPT ![t] =
                      [Called(@, "CompleteTransportEndpointCleanup", "cleanupEndpointsMu.Lock", 0)
                          EXCEPT !.arg = a]]
    /\ UNCHANGED <<nics, routeTable, nicIDGen, peerNics, peerNICIDGen>>
    /\ UNCHANGED <<mu, routeMu, cleanupEndpointsMu, cleanupEndpoints>>
    /\ calls' = calls + 1
    /\ UNCHANGED <<restVars, histVars, demux>>

\* CompleteTransportEndpointCleanup: delete(s.cleanupEndpoints, ep) and the
\* Unlock
CompleteCleanupBody(t) ==
    /\ At(t, "CompleteTransportEndpointCleanup")
    /\ cleanupEndpoints' = cleanupEndpoints \ {TheEp(threads[t].arg)}
    /\ cleanupEndpointsMu' = Unlock(cleanupEndpointsMu)
    /\ threads' = [threads EXCEPT ![t] = Return(@)]
    /\ UNCHANGED <<nics, routeTable, nicIDGen, peerNics, peerNICIDGen>>
    /\ UNCHANGED <<mu, routeMu>>
    /\ UNCHANGED <<restVars, histVars, calls, demux>>

\* RestoreCleanupEndpoints(es): s.cleanupEndpointsMu.Lock()
RestoreCleanupCall(t, a) ==
    /\ MayCall(t)
    /\ threads' = [threads EXCEPT ![t] =
                      [Called(@, "RestoreCleanupEndpoints", "cleanupEndpointsMu.Lock", 0)
                          EXCEPT !.arg = a]]
    /\ UNCHANGED <<nics, routeTable, nicIDGen, peerNics, peerNICIDGen>>
    /\ UNCHANGED <<mu, routeMu, cleanupEndpointsMu, cleanupEndpoints>>
    /\ calls' = calls + 1
    /\ UNCHANGED <<restVars, histVars, demux>>

\* RestoreCleanupEndpoints: every e of es is added, and the deferred Unlock
RestoreCleanupBody(t) ==
    /\ At(t, "RestoreCleanupEndpoints")
    /\ cleanupEndpoints' = cleanupEndpoints \cup threads[t].arg.eps
    /\ cleanupEndpointsMu' = Unlock(cleanupEndpointsMu)
    /\ threads' = [threads EXCEPT ![t] = Return(@)]
    /\ UNCHANGED <<nics, routeTable, nicIDGen, peerNics, peerNICIDGen>>
    /\ UNCHANGED <<mu, routeMu>>
    /\ UNCHANGED <<restVars, histVars, calls, demux>>

\* RegisterRestoredEndpoint(e): under mu, e is appended to restoredEndpoints.
RegisterRestoredEndpoint(t, e) ==
    /\ MayCall(t)
    /\ CanLock(mu, t)
    /\ restoredEndpoints' = Append(restoredEndpoints, e)
    /\ calls' = calls + 1
    /\ UNCHANGED <<nics, routeTable, nicIDGen, peerNics, peerNICIDGen>>
    /\ UNCHANGED <<mu, routeMu, cleanupEndpointsMu, cleanupEndpoints, threads, demux>>
    /\ UNCHANGED <<defaultForwardingEnabled, handleLocal, rawFactory, saveRestoreEnabled, resumableEndpoints,
                   tables, nftables, seed, tsOffsetSecret>>
    /\ UNCHANGED histVars

\* RegisterResumableEndpoint(e): under mu, e is appended to resumableEndpoints.
RegisterResumableEndpoint(t, e) ==
    /\ MayCall(t)
    /\ CanLock(mu, t)
    /\ resumableEndpoints' = Append(resumableEndpoints, e)
    /\ calls' = calls + 1
    /\ UNCHANGED <<nics, routeTable, nicIDGen, peerNics, peerNICIDGen>>
    /\ UNCHANGED <<mu, routeMu, cleanupEndpointsMu, cleanupEndpoints, threads, demux>>
    /\ UNCHANGED <<defaultForwardingEnabled, handleLocal, rawFactory, saveRestoreEnabled, restoredEndpoints,
                   tables, nftables, seed, tsOffsetSecret>>
    /\ UNCHANGED histVars

\* The range of atomicbitops.Int32.
MaxInt32 == 2147483647
MinInt32 == -MaxInt32 - 1

\* s.nicIDGen.Add(1) on the 32-bit counter x: it wraps around.
Add32(x) == IF x = MaxInt32 THEN MinInt32 ELSE x + 1

\* NextNICID: next := s.nicIDGen.Add(1), one atomic step; next is kept in id.
NextNICIDAdd(t) ==
    /\ MayCall(t)
    /\ nicIDGen' = Add32(nicIDGen)
    /\ threads' = [threads EXCEPT ![t] = Called(@, "NextNICID", "none", Add32(nicIDGen))]
    /\ calls' = calls + 1
    /\ UNCHANGED <<nics, routeTable, peerNics, peerNICIDGen>>
    /\ UNCHANGED <<mu, routeMu, cleanupEndpointsMu, cleanupEndpoints>>
    /\ UNCHANGED <<restVars, histVars, demux>>

\* Mutant of NextNICIDReturn: next is returned without the test.
NextNICIDReturn_NoTest(t) ==
    /\ At(t, "NextNICID")
    /\ last' = Returned("NextNICID", 0, NoRoute, threads[t].id, "nil")
    /\ threads' = [threads EXCEPT ![t] = Return(@)]
    /\ UNCHANGED <<nics, routeTable, nicIDGen, peerNics, peerNICIDGen>>
    /\ UNCHANGED <<mu, routeMu, cleanupEndpointsMu, cleanupEndpoints>>
    /\ UNCHANGED <<restVars, beforeAdd, setArg, calls, demux>>

\* NextNICID: if next < 0 { panic("NICID overflow") }; return tcpip.NICID(next)
NextNICIDReturn(t) ==
    /\ At(t, "NextNICID")
    /\ last' = IF threads[t].id < 0
               THEN Returned("NextNICID", 0, NoRoute, 0, "panic")
               ELSE Returned("NextNICID", 0, NoRoute, threads[t].id, "nil")
    /\ threads' = [threads EXCEPT ![t] = Return(@)]
    /\ UNCHANGED <<nics, routeTable, nicIDGen, peerNics, peerNICIDGen>>
    /\ UNCHANGED <<mu, routeMu, cleanupEndpointsMu, cleanupEndpoints>>
    /\ UNCHANGED <<restVars, beforeAdd, setArg, calls, demux>>

\* Seed(): s.seed
Seed == seed

\* Pause: p.proto.Pause() for every transport protocol; the Stack is not
\* written.
Pause(t) ==
    /\ MayCall(t)
    /\ calls' = calls + 1
    /\ UNCHANGED <<nics, routeTable, nicIDGen, peerNics, peerNICIDGen>>
    /\ UNCHANGED <<mu, routeMu, cleanupEndpointsMu, cleanupEndpoints, threads, demux>>
    /\ UNCHANGED <<restVars, histVars>>

\* EnableSaveRestore: under mu, s.saveRestoreEnabled = true
EnableSaveRestore(t) ==
    /\ MayCall(t)
    /\ CanLock(mu, t)
    /\ saveRestoreEnabled' = TRUE
    /\ calls' = calls + 1
    /\ UNCHANGED <<nics, routeTable, nicIDGen, peerNics, peerNICIDGen>>
    /\ UNCHANGED <<mu, routeMu, cleanupEndpointsMu, cleanupEndpoints, threads, demux>>
    /\ UNCHANGED <<defaultForwardingEnabled, handleLocal, rawFactory, restoredEndpoints, resumableEndpoints,
                   tables, nftables, seed, tsOffsetSecret>>
    /\ UNCHANGED histVars

\* Close: s.RegisteredEndpoints() starts with s.mu.Lock()
CloseCall(t) ==
    /\ MayCall(t)
    /\ threads' = [threads EXCEPT ![t] =
                      Entered(Called(@, "Close", "mu.Lock", 0),
                              "Close()", RegisteredEndpoints(demux))]
    /\ calls' = calls + 1
    /\ UNCHANGED <<nics, routeTable, nicIDGen, peerNics, peerNICIDGen>>
    /\ UNCHANGED <<mu, routeMu, cleanupEndpointsMu, cleanupEndpoints>>
    /\ UNCHANGED <<restVars, histVars, demux>>

\* Destroy: s.Close(), whose s.RegisteredEndpoints() starts with s.mu.Lock()
DestroyCall(t) ==
    /\ MayCall(t)
    /\ threads' = [threads EXCEPT ![t] =
                      Entered(Called(@, "Close", "mu.Lock", 0),
                              "Destroy()", RegisteredEndpoints(demux))]
    /\ calls' = calls + 1
    /\ UNCHANGED <<nics, routeTable, nicIDGen, peerNics, peerNICIDGen>>
    /\ UNCHANGED <<mu, routeMu, cleanupEndpointsMu, cleanupEndpoints>>
    /\ UNCHANGED <<restVars, histVars, demux>>

\* Mutant of closeCalls: the protocols are closed before the endpoints are
\* aborted.
closeCalls_ProtocolsFirst(th, es) ==
    Did(Did(Did(th, "transport.Close", transportProtocols), "network.Close", NetProtos),
        "e.Abort", es)

\* The calls of Close on the endpoints es: e.Abort() for each of them, then
\* Close on every transport protocol, then on every network protocol.
closeCalls(th, es) ==
    Did(Did(Did(th, "e.Abort", es), "transport.Close", transportProtocols),
        "network.Close", NetProtos)

\* Close: RegisteredEndpoints returns (deferred s.mu.Unlock()), the endpoints
\* are aborted and the protocols closed. Close returns; inside Destroy,
\* s.Wait() follows, whose s.RegisteredEndpoints() starts with s.mu.Lock().
CloseRegisteredEndpoints(t) ==
    /\ At(t, "Close")
    /\ mu' = Unlock(mu)
    /\ LET th == closeCalls(threads[t], RegisteredEndpoints(demux))
       IN  threads' = [threads EXCEPT ![t] =
                          IF th.done[1].call = "Destroy()"
                          THEN Called(th, "Wait", "mu.Lock", 0)
                          ELSE Goto(th, "return", "none")]
    /\ UNCHANGED <<nics, routeTable, nicIDGen, peerNics, peerNICIDGen>>
    /\ UNCHANGED <<routeMu, cleanupEndpointsMu, cleanupEndpoints>>
    /\ UNCHANGED <<restVars, histVars, calls, demux>>

\* Wait, its calls recorded: s.RegisteredEndpoints() starts with s.mu.Lock()
WaitEnter(t) ==
    /\ MayCall(t)
    /\ threads' = [threads EXCEPT ![t] =
                      Entered(Called(@, "Wait", "mu.Lock", 0),
                              "Wait()", RegisteredEndpoints(demux))]
    /\ calls' = calls + 1
    /\ UNCHANGED <<nics, routeTable, nicIDGen, peerNics, peerNICIDGen>>
    /\ UNCHANGED <<mu, routeMu, cleanupEndpointsMu, cleanupEndpoints>>
    /\ UNCHANGED <<restVars, histVars, demux>>

\* Restore: s.mu.Lock()
RestoreCall(t) ==
    /\ MayCall(t)
    /\ threads' = [threads EXCEPT ![t] =
                      Entered(Called(@, "Restore", "mu.Lock", 0), "Restore()", {})]
    /\ calls' = calls + 1
    /\ UNCHANGED <<nics, routeTable, nicIDGen, peerNics, peerNICIDGen>>
    /\ UNCHANGED <<mu, routeMu, cleanupEndpointsMu, cleanupEndpoints>>
    /\ UNCHANGED <<restVars, histVars, demux>>

\* Mutant of RestoreTake: s.mu is kept while the endpoints are restored.
RestoreTake_KeepLock(t) ==
    /\ At(t, "Restore")
    /\ restoredEndpoints' = <<>>
    /\ threads' = [threads EXCEPT ![t] =
                      [Goto(Did(@, "take", restoredEndpoints), "Restore.range", "none")
                          EXCEPT !.eps = restoredEndpoints, !.sre = saveRestoreEnabled]]
    /\ UNCHANGED <<nics, routeTable, nicIDGen, peerNics, peerNICIDGen>>
    /\ UNCHANGED <<mu, routeMu, cleanupEndpointsMu, cleanupEndpoints, calls, demux>>
    /\ UNCHANGED <<defaultForwardingEnabled, handleLocal, rawFactory, saveRestoreEnabled, resumableEndpoints,
                   tables, nftables, seed, tsOffsetSecret>>
    /\ UNCHANGED histVars

\* Restore: eps := s.restoredEndpoints, s.restoredEndpoints = nil,
\* saveRestoreEnabled := s.saveRestoreEnabled and s.mu.Unlock()
RestoreTake(t) ==
    /\ At(t, "Restore")
    /\ restoredEndpoints' = <<>>
    /\ mu' = Unlock(mu)
    /\ threads' = [threads EXCEPT ![t] =
                      [Goto(Did(@, "take", restoredEndpoints), "Restore.range", "none")
                          EXCEPT !.eps = restoredEndpoints, !.sre = saveRestoreEnabled]]
    /\ UNCHANGED <<nics, routeTable, nicIDGen, peerNics, peerNICIDGen>>
    /\ UNCHANGED <<routeMu, cleanupEndpointsMu, cleanupEndpoints, calls, demux>>
    /\ UNCHANGED <<defaultForwardingEnabled, handleLocal, rawFactory, saveRestoreEnabled, resumableEndpoints,
                   tables, nftables, seed, tsOffsetSecret>>
    /\ UNCHANGED histVars

\* Restore: e.Restore(s) for the next endpoint of eps. RestoredEndpoint.Restore
\* may call other methods on s: either it calls none, or it calls one that
\* starts with s.mu.Lock().
RestoreEndpoint(t) ==
    /\ At(t, "Restore.range")
    /\ threads[t].eps # <<>>
    /\ LET th == [Did(threads[t], "e.Restore", {Head(threads[t].eps)})
                     EXCEPT !.eps = Tail(@)]
       IN  \/ threads' = [threads EXCEPT ![t] = th]
           \/ threads' = [threads EXCEPT ![t] = Goto(th, "Restore.callback", "mu.Lock")]
    /\ UNCHANGED <<nics, routeTable, nicIDGen, peerNics, peerNICIDGen>>
    /\ UNCHANGED <<mu, routeMu, cleanupEndpointsMu, cleanupEndpoints>>
    /\ UNCHANGED <<restVars, histVars, calls, demux>>

\* Restore: the method of s that e.Restore(s) called returns (s.mu.Unlock()),
\* and so does e.Restore(s).
RestoreCallback(t) ==
    /\ At(t, "Restore.callback")
    /\ mu' = Unlock(mu)
    /\ threads' = [threads EXCEPT ![t] = Goto(@, "Restore.range", "none")]
    /\ UNCHANGED <<nics, routeTable, nicIDGen, peerNics, peerNICIDGen>>
    /\ UNCHANGED <<routeMu, cleanupEndpointsMu, cleanupEndpoints>>
    /\ UNCHANGED <<restVars, histVars, calls, demux>>

\* Restore: the range over eps is over; tcpip.AsyncLoading.Wait(), then
\* p.proto.Restore() or p.proto.Resume() for every transport protocol.
RestoreProtocols(t) ==
    /\ At(t, "Restore.range")
    /\ threads[t].eps = <<>>
    /\ threads' = [threads EXCEPT ![t] =
                      Goto(Did(Did(@, "AsyncLoading.Wait", {}),
                               IF @.sre THEN "transport.Restore" ELSE "transport.Resume",
                               transportProtocols),
                           "return", "none")]
    /\ UNCHANGED <<nics, routeTable, nicIDGen, peerNics, peerNICIDGen>>
    /\ UNCHANGED <<mu, routeMu, cleanupEndpointsMu, cleanupEndpoints>>
    /\ UNCHANGED <<restVars, histVars, calls, demux>>

\* Resume: s.mu.Lock()
ResumeCall(t) ==
    /\ MayCall(t)
    /\ threads' = [threads EXCEPT ![t] =
                      Entered(Called(@, "Resume", "mu.Lock", 0), "Resume()", {})]
    /\ calls' = calls + 1
    /\ UNCHANGED <<nics, routeTable, nicIDGen, peerNics, peerNICIDGen>>
    /\ UNCHANGED <<mu, routeMu, cleanupEndpointsMu, cleanupEndpoints>>
    /\ UNCHANGED <<restVars, histVars, demux>>

\* Resume: eps := s.resumableEndpoints, s.resumableEndpoints = nil and
\* s.mu.Unlock()
ResumeTake(t) ==
    /\ At(t, "Resume")
    /\ resumableEndpoints' = <<>>
    /\ mu' = Unlock(mu)
    /\ threads' = [threads EXCEPT ![t] =
                      [Goto(Did(@, "take", resumableEndpoints), "Resume.range", "none")
                          EXCEPT !.eps = resumableEndpoints]]
    /\ UNCHANGED <<nics, routeTable, nicIDGen, peerNics, peerNICIDGen>>
    /\ UNCHANGED <<routeMu, cleanupEndpointsMu, cleanupEndpoints, calls, demux>>
    /\ UNCHANGED <<defaultForwardingEnabled, handleLocal, rawFactory, saveRestoreEnabled, restoredEndpoints,
                   tables, nftables, seed, tsOffsetSecret>>
    /\ UNCHANGED histVars

\* Mutant of ResumeEndpoint: the endpoint is passed over.
ResumeEndpoint_Skip(t) ==
    /\ At(t, "Resume.range")
    /\ threads[t].eps # <<>>
    /\ threads' = [threads EXCEPT ![t].eps = Tail(@)]
    /\ UNCHANGED <<nics, routeTable, nicIDGen, peerNics, peerNICIDGen>>
    /\ UNCHANGED <<mu, routeMu, cleanupEndpointsMu, cleanupEndpoints>>
    /\ UNCHANGED <<restVars, histVars, calls, demux>>

\* Resume: e.Resume() for the next endpoint of eps
ResumeEndpoint(t) ==
    /\ At(t, "Resume.range")
    /\ threads[t].eps # <<>>
    /\ threads' = [threads EXCEPT ![t] =
                      [Did(@, "e.Resume", {Head(@.eps)}) EXCEPT !.eps = Tail(@)]]
    /\ UNCHANGED <<nics, routeTable, nicIDGen, peerNics, peerNICIDGen>>
    /\ UNCHANGED <<mu, routeMu, cleanupEndpointsMu, cleanupEndpoints>>
    /\ UNCHANGED <<restVars, histVars, calls, demux>>

\* Resume: the range over eps is over; p.proto.Resume() for every transport
\* protocol.
ResumeProtocols(t) ==
    /\ At(t, "Resume.range")
    /\ threads[t].eps = <<>>
    /\ threads' = [threads EXCEPT ![t] =
                      Goto(Did(@, "transport.Resume", transportProtocols), "return", "none")]
    /\ UNCHANGED <<nics, routeTable, nicIDGen, peerNics, peerNICIDGen>>
    /\ UNCHANGED <<mu, routeMu, cleanupEndpointsMu, cleanupEndpoints>>
    /\ UNCHANGED <<restVars, histVars, calls, demux>>

\* Close, Restore, Resume: the method returns.
MethodReturn(t) ==
    /\ At(t, "return")
    /\ threads' = [threads EXCEPT ![t] = Return(@)]
    /\ UNCHANGED <<nics, routeTable, nicIDGen, peerNics, peerNICIDGen>>
    /\ UNCHANGED <<mu, routeMu, cleanupEndpointsMu, cleanupEndpoints>>
    /\ UNCHANGED <<restVars, histVars, calls, demux>>

\* RemoveNIC(id): s.mu.Lock()
RemoveNICCall(t) ==
    /\ MayCall(t)
    /\ \E id \in NICIDs :
          threads' = [threads EXCEPT ![t] = Called(@, "RemoveNIC", "mu.Lock", id)]
    /\ UNCHANGED <<nics, routeTable, nicIDGen, peerNics, peerNICIDGen>>
    /\ UNCHANGED <<mu, routeMu, cleanupEndpointsMu, cleanupEndpoints>>
    /\ calls' = calls + 1
    /\ UNCHANGED <<restVars, histVars, demux>>

\* Where removeNICLocked returns to: the loop of Wait, or the s.mu.Unlock()
\* of RemoveNIC.
AfterRemoveNICLocked(th) ==
    IF th.fn = "Wait"
    THEN Goto(Did(th, "link.Wait", {th.id}), "Wait.loop", "none")
    ELSE Goto(th, "RemoveNIC.unlock", "none")

\* removeNICLocked under mu: the lookup, delete(s.nics, id), DelNIC on the
\* coordinator of a coordinated NIC, up to s.routeMu.Lock(). An unknown id
\* and a failed DelNIC return at once.
removeNICLockedDelete(t) ==
    /\ threads[t].pc \in {"RemoveNIC", "Wait.remove"}
    /\ threads[t].want = "none"
    /\ LET id == threads[t].id
       IN  IF id \notin DOMAIN nics
           THEN /\ threads' = [threads EXCEPT ![t] = AfterRemoveNICLocked(@)]
                /\ UNCHANGED nics
           ELSE /\ nics' = MapDelete(nics, id)
                /\ \E delErr \in BOOLEAN :
                      threads' = [threads EXCEPT ![t] =
                                     [(IF nics[id].Primary # 0 /\ delErr
                                       THEN AfterRemoveNICLocked(@)
                                       ELSE Goto(@, "removeNICLocked.purge", "routeMu.Lock"))
                                         EXCEPT !.link = {LinkEndpointOf(nics[id])}]]
    /\ UNCHANGED <<routeTable, nicIDGen, peerNics, peerNICIDGen>>
    /\ UNCHANGED <<mu, routeMu, cleanupEndpointsMu, cleanupEndpoints>>
    /\ UNCHANGED <<restVars, histVars, calls, demux>>

\* Mutant of removeNICLockedPurge: the loop unlinks nothing.
removeNICLockedPurge_Nothing(t) ==
    /\ At(t, "removeNICLocked.purge")
    /\ threads' = [threads EXCEPT ![t] = Goto(@, "removeNICLocked.purged", "none")]
    /\ UNCHANGED <<nics, routeTable, nicIDGen, peerNics, peerNICIDGen>>
    /\ UNCHANGED <<mu, routeMu, cleanupEndpointsMu, cleanupEndpoints>>
    /\ UNCHANGED <<restVars, histVars, calls, demux>>

\* removeNICLocked under mu and routeMu: the loop that unlinks the routes
\* whose NIC is id
removeNICLockedPurge(t) ==
    /\ At(t, "removeNICLocked.purge")
    /\ LET res == removeRoutesLocked(routeTable, MatchNIC(threads[t].id))
       IN  /\ routeTable' = res.table
           /\ threads' = [threads EXCEPT ![t] =
                             [Goto(Did(@, "purge", {@.id}), "removeNICLocked.purged", "none")
                                 EXCEPT !.unlinked = res.count]]
    /\ UNCHANGED <<nics, nicIDGen, peerNics, peerNICIDGen>>
    /\ UNCHANGED <<mu, routeMu, cleanupEndpointsMu, cleanupEndpoints>>
    /\ UNCHANGED <<restVars, histVars, calls, demux>>

\* removeNICLocked: s.routeMu.Unlock() and nic.remove(true), whose deferred
\* action, when it returns one, the caller keeps: RemoveNIC to run it next,
\* Wait behind the ones it has collected.
removeNICLockedRemove(t) ==
    /\ At(t, "removeNICLocked.purged")
    /\ routeMu' = Unlock(routeMu)
    /\ LET th == Did(threads[t], "nic.remove", {threads[t].id})
           acts == IF th.fn = "Wait" THEN Append(th.acts, th.id) ELSE <<th.id>> \o th.acts
       IN  \E deferAct \in BOOLEAN :
              threads' = [threads EXCEPT ![t] =
                             AfterRemoveNICLocked(IF deferAct
                                                  THEN [Did(th, "deferAct", {th.id})
                                                           EXCEPT !.acts = acts]
                                                  ELSE th)]
    /\ UNCHANGED <<nics, routeTable, nicIDGen, peerNics, peerNICIDGen>>
    /\ UNCHANGED <<mu, cleanupEndpointsMu, cleanupEndpoints>>
    /\ UNCHANGED <<restVars, histVars, calls, demux>>

\* Mutant of RemoveNICUnlock: the deferred action runs before s.mu.Unlock().
RemoveNICUnlock_Late(t) ==
    /\ At(t, "RemoveNIC.unlock")
    /\ threads' = [threads EXCEPT ![t] = Goto(@, "deferAct", "none")]
    /\ UNCHANGED <<nics, routeTable, nicIDGen, peerNics, peerNICIDGen>>
    /\ UNCHANGED <<mu, routeMu, cleanupEndpointsMu, cleanupEndpoints>>
    /\ UNCHANGED <<restVars, histVars, calls, demux>>

\* RemoveNIC: s.mu.Unlock(), before the deferred action
RemoveNICUnlock(t) ==
    /\ At(t, "RemoveNIC.unlock")
    /\ mu' = Unlock(mu)
    /\ threads' = [threads EXCEPT ![t] = Goto(@, "deferAct", "none")]
    /\ UNCHANGED <<nics, routeTable, nicIDGen, peerNics, peerNICIDGen>>
    /\ UNCHANGED <<routeMu, cleanupEndpointsMu, cleanupEndpoints>>
    /\ UNCHANGED <<restVars, histVars, calls, demux>>

\* deferAct(): the link endpoint of NIC id is closed. Its on-close action,
\* set by CreateNICWithOptions, calls s.RemoveNIC(id), which starts with
\* s.mu.Lock(); an endpoint may also close without running it.
DeferAct(t) ==
    /\ At(t, "deferAct")
    /\ threads[t].acts # <<>>
    /\ LET th == Did(threads[t], "act", {Head(threads[t].acts)})
       IN  \/ threads' = [threads EXCEPT ![t] =
                             [th EXCEPT !.acts = Tail(th.acts), !.pc = "RemoveNIC",
                                        !.want = "mu.Lock", !.fn = "RemoveNIC",
                                        !.id = Head(th.acts), !.cb = TRUE]]
           \/ threads' = [threads EXCEPT ![t] = [th EXCEPT !.acts = Tail(th.acts)]]
    /\ UNCHANGED <<nics, routeTable, nicIDGen, peerNics, peerNICIDGen>>
    /\ UNCHANGED <<mu, routeMu, cleanupEndpointsMu, cleanupEndpoints>>
    /\ UNCHANGED <<restVars, histVars, calls, demux>>

\* RemoveNIC and Wait return when no deferred action is left.
DeferActsDone(t) ==
    /\ At(t, "deferAct")
    /\ threads[t].acts = <<>>
    /\ threads' = [threads EXCEPT ![t] = Return(@)]
    /\ UNCHANGED <<nics, routeTable, nicIDGen, peerNics, peerNICIDGen>>
    /\ UNCHANGED <<mu, routeMu, cleanupEndpointsMu, cleanupEndpoints>>
    /\ UNCHANGED <<restVars, histVars, calls, demux>>

\* Wait: s.RegisteredEndpoints() starts with s.mu.Lock()
WaitCall(t) ==
    /\ MayCall(t)
    /\ threads' = [threads EXCEPT ![t] = Called(@, "Wait", "mu.Lock", 0)]
    /\ UNCHANGED <<nics, routeTable, nicIDGen, peerNics, peerNICIDGen>>
    /\ UNCHANGED <<mu, routeMu, cleanupEndpointsMu, cleanupEndpoints>>
    /\ calls' = calls + 1
    /\ UNCHANGED <<restVars, histVars, demux>>

\* Wait: RegisteredEndpoints returns (deferred s.mu.Unlock()), the endpoints
\* are waited for, s.CleanupEndpoints() starts with s.cleanupEndpointsMu.Lock()
WaitRegisteredEndpoints(t) ==
    /\ At(t, "Wait")
    /\ mu' = Unlock(mu)
    /\ threads' = [threads EXCEPT ![t] =
                      Goto(Did(@, "e.Wait", RegisteredEndpoints(demux)),
                           "Wait.cleanup", "cleanupEndpointsMu.Lock")]
    /\ UNCHANGED <<nics, routeTable, nicIDGen, peerNics, peerNICIDGen>>
    /\ UNCHANGED <<routeMu, cleanupEndpointsMu, cleanupEndpoints>>
    /\ UNCHANGED <<restVars, histVars, calls, demux>>

\* Wait: CleanupEndpoints returns (deferred Unlock), the endpoints and the
\* protocols are waited for, then s.mu.Lock()
WaitCleanupEndpoints(t) ==
    /\ At(t, "Wait.cleanup")
    /\ cleanupEndpointsMu' = Unlock(cleanupEndpointsMu)
    /\ threads' = [threads EXCEPT ![t] =
                      Goto(Did(Did(Did(@, "e.Wait", cleanupEndpoints),
                                   "transport.Wait", transportProtocols),
                               "network.Wait", NetProtos),
                           "Wait.loop", "mu.Lock")]
    /\ UNCHANGED <<nics, routeTable, nicIDGen, peerNics, peerNICIDGen>>
    /\ UNCHANGED <<mu, routeMu, cleanupEndpoints>>
    /\ UNCHANGED <<restVars, histVars, calls, demux>>

\* Wait under mu: the loop over s.nics takes the next NIC and calls
\* s.removeNICLocked(id); after the last one s.mu.Unlock(), and the collected
\* deferred actions are run.
WaitLoop(t) ==
    /\ At(t, "Wait.loop")
    /\ IF DOMAIN nics = {}
       THEN /\ mu' = Unlock(mu)
            /\ threads' = [threads EXCEPT ![t] = Goto(@, "deferAct", "none")]
       ELSE /\ \E id \in DOMAIN nics :
                  threads' = [threads EXCEPT ![t] =
                                 [Goto(Did(@, "removeNICLocked", {id}), "Wait.remove", "none")
                                     EXCEPT !.id = id]]
            /\ UNCHANGED mu
    /\ UNCHANGED <<nics, routeTable, nicIDGen, peerNics, peerNICIDGen>>
    /\ UNCHANGED <<routeMu, cleanupEndpointsMu, cleanupEndpoints>>
    /\ UNCHANGED <<restVars, histVars, calls, demux>>

\* SetNICStack(id, peer): s.mu.Lock()
SetNICStackCall(t) ==
    /\ MayCall(t)
    /\ peerNICIDGen + Cardinality(Inside({"SetNICStack"})) < MaxNICIDGen
    /\ \E id \in NICIDs :
          threads' = [threads EXCEPT ![t] = Called(@, "SetNICStack", "mu.Lock", id)]
    /\ UNCHANGED <<nics, routeTable, nicIDGen, peerNics, peerNICIDGen>>
    /\ UNCHANGED <<mu, routeMu, cleanupEndpointsMu, cleanupEndpoints>>
    /\ calls' = calls + 1
    /\ UNCHANGED <<restVars, histVars, demux>>

\* SetNICStack under mu: an unknown id and peer == s unlock and return; else
\* delete(s.nics, id), and s.RemoveRoutes starts with s.routeMu.Lock().
SetNICStackLocked(t) ==
    /\ At(t, "SetNICStack")
    /\ LET id == threads[t].id
       IN  \E self \in BOOLEAN :
              IF id \notin DOMAIN nics \/ self
              THEN /\ mu' = Unlock(mu)
                   /\ threads' = [threads EXCEPT ![t] = Return(@)]
                   /\ UNCHANGED nics
              ELSE /\ nics' = MapDelete(nics, id)
                   /\ threads' = [threads EXCEPT ![t] =
                                     [Goto(@, "SetNICStack.purge", "routeMu.Lock")
                                         EXCEPT !.nic = nics[id]]]
                   /\ UNCHANGED mu
    /\ UNCHANGED <<routeTable, nicIDGen, peerNics, peerNICIDGen>>
    /\ UNCHANGED <<routeMu, cleanupEndpointsMu, cleanupEndpoints>>
    /\ UNCHANGED <<restVars, histVars, calls, demux>>

\* SetNICStack under mu and routeMu: RemoveRoutes unlinks the routes whose
\* NIC is id
SetNICStackRemoveRoutes(t) ==
    /\ At(t, "SetNICStack.purge")
    /\ LET res == removeRoutesLocked(routeTable, MatchNIC(threads[t].id))
       IN  /\ routeTable' = res.table
           /\ threads' = [threads EXCEPT ![t] =
                             [Goto(@, "SetNICStack.purged", "none")
                                 EXCEPT !.unlinked = res.count]]
    /\ UNCHANGED <<nics, nicIDGen, peerNics, peerNICIDGen>>
    /\ UNCHANGED <<mu, routeMu, cleanupEndpointsMu, cleanupEndpoints>>
    /\ UNCHANGED <<restVars, histVars, calls, demux>>

\* SetNICStack: RemoveRoutes returns (deferred s.routeMu.Unlock()), then
\* nic.remove(false) and s.mu.Unlock()
SetNICStackUnlock(t) ==
    /\ At(t, "SetNICStack.purged")
    /\ routeMu' = Unlock(routeMu)
    /\ mu' = Unlock(mu)
    /\ threads' = [threads EXCEPT ![t] = Goto(@, "SetNICStack.peer", "none")]
    /\ UNCHANGED <<nics, routeTable, nicIDGen, peerNics, peerNICIDGen>>
    /\ UNCHANGED <<cleanupEndpointsMu, cleanupEndpoints>>
    /\ UNCHANGED <<restVars, histVars, calls, demux>>

\* SetNICStack outside the locks of s: deferAct(), which leaves the link
\* endpoint open; the method returns the error of nic.remove, or goes on to
\* peer.NextNICID() and peer.CreateNICWithOptions
SetNICStackPeer(t) ==
    /\ At(t, "SetNICStack.peer")
    /\ \E remErr \in BOOLEAN :
          IF remErr
          THEN UNCHANGED <<peerNics, peerNICIDGen>>
          ELSE /\ peerNICIDGen' = peerNICIDGen + 1
               /\ peerNics' = setStack(createNICWithOptions(
                                           peerNics, peerNICIDGen + 1,
                                           [coord |-> threads[t].nic.coord],
                                           [Name |-> threads[t].nic.name, Disabled |-> FALSE],
                                           FALSE).nics, "peer")
    /\ threads' = [threads EXCEPT ![t] = Return(@)]
    /\ UNCHANGED <<nics, routeTable, nicIDGen>>
    /\ UNCHANGED <<mu, routeMu, cleanupEndpointsMu, cleanupEndpoints>>
    /\ UNCHANGED <<restVars, histVars, calls, demux>>

\* ReplaceConfig(st): s.SetRouteTable starts with s.routeMu.Lock()
ReplaceConfigCall(t) ==
    /\ MayCall(t)
    /\ nicIDGen + Cardinality(Inside({"ReplaceConfig"})) < MaxNICIDGen
    /\ threads' = [threads EXCEPT ![t] = Called(@, "ReplaceConfig", "routeMu.Lock", 0)]
    /\ UNCHANGED <<nics, routeTable, nicIDGen, peerNics, peerNICIDGen>>
    /\ UNCHANGED <<mu, routeMu, cleanupEndpointsMu, cleanupEndpoints>>
    /\ calls' = calls + 1
    /\ UNCHANGED <<restVars, histVars, demux>>

\* ReplaceConfig: SetRouteTable(st.GetRouteTable()) and its deferred Unlock,
\* st.getNICs(), then s.mu.Lock()
ReplaceConfigSetRouteTable(t) ==
    /\ At(t, "ReplaceConfig")
    /\ \E st \in ConcStacks : routeTable' = setRouteTable(st.routeTable)
    /\ routeMu' = Unlock(routeMu)
    /\ threads' = [threads EXCEPT ![t] = Goto(@, "ReplaceConfig.nics", "mu.Lock")]
    /\ UNCHANGED <<nics, nicIDGen, peerNics, peerNICIDGen>>
    /\ UNCHANGED <<mu, cleanupEndpointsMu, cleanupEndpoints>>
    /\ UNCHANGED <<restVars, histVars, calls, demux>>

\* Mutant of ReplaceConfigNICs: the seed and the secret of st are taken over
\* with its tables.
ReplaceConfigNICs_Seed(t) ==
    /\ At(t, "ReplaceConfig.nics")
    /\ \E st \in ConcStacks :
          /\ nics' = replaceNICs(st.nics)
          /\ nicIDGen' = nicIDGen + Cardinality(DOMAIN st.nics)
          /\ tables' = st.tables
          /\ nftables' = st.nftables
          /\ seed' = st.seed
          /\ tsOffsetSecret' = st.tsOffsetSecret
    /\ mu' = Unlock(mu)
    /\ threads' = [threads EXCEPT ![t] = Return(@)]
    /\ UNCHANGED <<routeTable, peerNics, peerNICIDGen>>
    /\ UNCHANGED <<routeMu, cleanupEndpointsMu, cleanupEndpoints>>
    /\ UNCHANGED <<defaultForwardingEnabled, handleLocal, rawFactory, saveRestoreEnabled,
                   restoredEndpoints, resumableEndpoints>>
    /\ UNCHANGED <<histVars, calls, demux>>

\* ReplaceConfig under mu: the fresh NIC map with the NICs of st, one
\* NextNICID per NIC, and the deferred s.mu.Unlock()
ReplaceConfigNICs(t) ==
    /\ At(t, "ReplaceConfig.nics")
    /\ \E st \in ConcStacks :
          /\ nics' = replaceNICs(st.nics)
          /\ nicIDGen' = nicIDGen + Cardinality(DOMAIN st.nics)
          /\ tables' = st.tables
          /\ nftables' = st.nftables
    /\ mu' = Unlock(mu)
    /\ threads' = [threads EXCEPT ![t] = Return(@)]
    /\ UNCHANGED <<routeTable, peerNics, peerNICIDGen>>
    /\ UNCHANGED <<routeMu, cleanupEndpointsMu, cleanupEndpoints>>
    /\ UNCHANGED <<defaultForwardingEnabled, handleLocal, rawFactory, saveRestoreEnabled, restoredEndpoints,
                   resumableEndpoints, seed, tsOffsetSecret>>
    /\ UNCHANGED <<histVars, calls, demux>>

\* A step of goroutine t.
Step(t) ==
    \/ Acquire(t)
    \/ Announce(t)
    \/ AddRouteCall(t)
    \/ AddRouteBody(t)
    \/ SetRouteTableCall(t)
    \/ SetRouteTableBody(t)
    \/ GetRouteTableCall(t)
    \/ GetRouteTableBody(t)
    \/ RemoveRoutesCall(t)
    \/ RemoveRoutesBody(t)
    \/ ReplaceRouteCall(t)
    \/ ReplaceRouteBody(t)
    \/ CreateNICCall(t)
    \/ CreateNICBody(t)
    \/ SetNICCoordinatorCall(t)
    \/ SetNICCoordinatorBody(t)
    \/ FindRouteCall(t)
    \/ FindRouteChecks(t)
    \/ FindRouteScan(t)
    \/ FindRouteReturn(t)
    \/ \E a \in ConcArgs : StartCleanupCall(t, a)
    \/ StartCleanupBody(t)
    \/ StartCleanupUnregister(t)
    \/ \E a \in ConcArgs : CompleteCleanupCall(t, a)
    \/ CompleteCleanupBody(t)
    \/ RemoveNICCall(t)
    \/ removeNICLockedDelete(t)
    \/ removeNICLockedPurge(t)
    \/ removeNICLockedRemove(t)
    \/ RemoveNICUnlock(t)
    \/ DeferAct(t)
    \/ DeferActsDone(t)
    \/ WaitCall(t)
    \/ WaitRegisteredEndpoints(t)
    \/ WaitCleanupEndpoints(t)
    \/ WaitLoop(t)
    \/ SetNICStackCall(t)
    \/ SetNICStackLocked(t)
    \/ SetNICStackRemoveRoutes(t)
    \/ SetNICStackUnlock(t)
    \/ SetNICStackPeer(t)
    \/ ReplaceConfigCall(t)
    \/ ReplaceConfigSetRouteTable(t)
    \/ ReplaceConfigNICs(t)

NextConc == \E t \in Threads : Step(t)

SpecConc == Init /\ [][NextConc]_vars

\* The Go scheduler runs every goroutine that can run.
SpecConcFair == SpecConc /\ \A t \in Threads : WF_vars(Step(t))

(***************************************************************************)
(* SpecSet: SetRouteTable step by step, beside GetRouteTable and FindRoute. *)
(***************************************************************************)
\* Mutant of SetRouteTableEnter: the method does not take routeMu.
SetRouteTableEnter_NoLock(t, table) ==
    /\ MayCall(t)
    /\ threads' = [threads EXCEPT
                      ![t] = [Called(@, "SetRouteTable.Reset", "none", 0) EXCEPT !.table = table]]
    /\ UNCHANGED <<nics, routeTable, nicIDGen, peerNics, peerNICIDGen>>
    /\ UNCHANGED <<mu, routeMu, cleanupEndpointsMu, cleanupEndpoints>>
    /\ calls' = calls + 1
    /\ UNCHANGED <<restVars, histVars, demux>>

\* SetRouteTable(table): s.routeMu.Lock()
SetRouteTableEnter(t, table) ==
    /\ MayCall(t)
    /\ threads' = [threads EXCEPT
                      ![t] = [Called(@, "SetRouteTable.Reset", "routeMu.Lock", 0)
                                EXCEPT !.table = table]]
    /\ UNCHANGED <<nics, routeTable, nicIDGen, peerNics, peerNICIDGen>>
    /\ UNCHANGED <<mu, routeMu, cleanupEndpointsMu, cleanupEndpoints>>
    /\ calls' = calls + 1
    /\ UNCHANGED <<restVars, histVars, demux>>

\* SetRouteTable: s.routeTable.Reset()
SetRouteTableReset(t) ==
    /\ At(t, "SetRouteTable.Reset")
    /\ routeTable' = <<>>
    /\ threads' = [threads EXCEPT ![t] = Goto(@, "SetRouteTable.range", "none")]
    /\ UNCHANGED <<nics, nicIDGen, peerNics, peerNICIDGen>>
    /\ UNCHANGED <<mu, routeMu, cleanupEndpointsMu, cleanupEndpoints>>
    /\ UNCHANGED <<restVars, histVars, calls, demux>>

\* SetRouteTable: one s.addRouteLocked(&r) of the loop; unlinked counts the
\* routes of the argument the loop has added.
SetRouteTableAdd(t) ==
    LET th == threads[t]
    IN  /\ At(t, "SetRouteTable.range")
        /\ th.unlinked < Len(th.table)
        /\ routeTable' = addRouteLocked(routeTable, th.table[th.unlinked + 1])
        /\ threads' = [threads EXCEPT ![t].unlinked = th.unlinked + 1]
        /\ UNCHANGED <<nics, nicIDGen, peerNics, peerNICIDGen>>
        /\ UNCHANGED <<mu, routeMu, cleanupEndpointsMu, cleanupEndpoints>>
        /\ UNCHANGED <<restVars, histVars, calls, demux>>

\* SetRouteTable: the loop is over, the deferred s.routeMu.Unlock() runs and
\* the method returns.
SetRouteTableUnlock(t) ==
    LET th == threads[t]
    IN  /\ At(t, "SetRouteTable.range")
        /\ th.unlinked = Len(th.table)
        /\ routeMu' = Unlock(routeMu)
        /\ threads' = [threads EXCEPT ![t] = Return(Goto(th, "idle", "none"))]
        /\ last' = Returned("SetRouteTable", 0, NoRoute, 0, "nil")
        /\ setArg' = th.table
        /\ UNCHANGED <<nics, routeTable, nicIDGen, peerNics, peerNICIDGen>>
        /\ UNCHANGED <<mu, cleanupEndpointsMu, cleanupEndpoints>>
        /\ UNCHANGED <<restVars, beforeAdd, calls, demux>>

StepSet(t) ==
    \/ Acquire(t)
    \/ Announce(t)
    \/ \E table \in SeqsUpTo(SpecSetRoutes, MaxSetLen) : SetRouteTableEnter(t, table)
    \/ SetRouteTableReset(t)
    \/ SetRouteTableAdd(t)
    \/ SetRouteTableUnlock(t)
    \/ GetRouteTableCall(t)
    \/ GetRouteTableBody(t)
    \/ FindRouteCall(t)
    \/ FindRouteChecks(t)
    \/ FindRouteScan(t)
    \/ FindRouteReturn(t)

NextSet == \E t \in Threads : StepSet(t)

SpecSet == Init /\ [][NextSet]_vars

(***************************************************************************)
(* SpecEP: goroutines register, look up and clean up transport endpoints.  *)
(***************************************************************************)
EPs == {"e1", "e2"}

\* (netProtos, id, ep) of the calls about one endpoint, and es of
\* RestoreCleanupEndpoints.
EPArgs == [nets : SUBSET NetProtos \ {{}}, id : EndpointIDs, eps : { {e} : e \in EPs }]

RestoreArgs == [nets : {{}}, id : {0}, eps : SUBSET EPs \ {{}}]

StepEP(t) ==
    \/ Acquire(t)
    \/ \E a \in EPArgs : RegisterTransportEndpoint(t, a)
    \/ \E a \in EPArgs : UnregisterTransportEndpoint(t, a)
    \/ \E net \in NetProtos, id \in EndpointIDs : FindTransportEndpoint(t, net, id)
    \/ \E a \in EPArgs : StartCleanupCall(t, a)
    \/ StartCleanupBody(t)
    \/ StartCleanupUnregister(t)
    \/ \E a \in EPArgs : CompleteCleanupCall(t, a)
    \/ CompleteCleanupBody(t)
    \/ \E a \in RestoreArgs : RestoreCleanupCall(t, a)
    \/ RestoreCleanupBody(t)

NextEP == \E t \in Threads : StepEP(t)

SpecEP == Init /\ [][NextEP]_vars

(***************************************************************************)
(* SpecCfg: ReplaceConfig and NextNICID on a stack with cleanup, restored  *)
(* and resumable endpoints.                                                *)
(***************************************************************************)
StepCfg(t) ==
    \/ Acquire(t)
    \/ \E a \in { x \in RestoreArgs : x.eps = {"e1"} } : RestoreCleanupCall(t, a)
    \/ RestoreCleanupBody(t)
    \/ RegisterRestoredEndpoint(t, "e1")
    \/ RegisterResumableEndpoint(t, "e2")
    \/ EnableSaveRestore(t)

NextCfg ==
    \/ \E route \in { r \in SpecSetRoutes : r.NIC = 1 } : AddRoute(route)
    \/ \E st \in LoadedStacks \cup {NilStack} : ReplaceConfig(st)
    \/ NextNICID
    \/ \E t \in Threads : StepCfg(t)

SpecCfg == Init /\ [][NextCfg]_vars

(***************************************************************************)
(* Restore and Resume next to the registrations of their endpoints.        *)
(***************************************************************************)
\* The endpoints that register for Restore and Resume.
LifecycleEndpoints == {"e1", "e2"}

StepRestore(t) ==
    \/ Acquire(t)
    \/ \E e \in LifecycleEndpoints : RegisterRestoredEndpoint(t, e)
    \/ RegisterResumableEndpoint(t, "e1")
    \/ EnableSaveRestore(t)
    \/ RestoreCall(t)
    \/ RestoreTake(t)
    \/ RestoreEndpoint(t)
    \/ RestoreCallback(t)
    \/ RestoreProtocols(t)
    \/ ResumeCall(t)
    \/ ResumeTake(t)
    \/ ResumeEndpoint(t)
    \/ ResumeProtocols(t)
    \/ MethodReturn(t)

NextRestore == \E t \in Threads : StepRestore(t)

SpecRestore == Init /\ [][NextRestore]_vars

(***************************************************************************)
(* Close, Wait and Destroy on a stack that is in use.                      *)
(***************************************************************************)
\* The NIC maps of the stacks that are closed: none, NIC 1, NIC 1 and the
\* coordinator NIC 2, and these two with NIC 1 bonded to NIC 2 by
\* SetNICCoordinator.
LifeNICs ==
    LET opts == [Name |-> "", Disabled |-> FALSE]
        one == createNICWithOptions(EmptyNICs, 1, EndpointOf(1), opts, FALSE).nics
        two == createNICWithOptions(one, 2, EndpointOf(2), opts, FALSE).nics
    IN  {EmptyNICs, one, two, setNICCoordinator(two, 1, 2, FALSE).nics}

\* Their route tables: none, or one route through NIC 1.
LifeTables ==
    {<<>>} \cup { setRouteTable(<<r>>) : r \in { x \in SpecSetRoutes : x.NIC = 1 } }

\* Their registered endpoints: none, or the one RegisterTransportEndpoint
\* registered.
LifeDemuxes == {{}} \cup { registerEndpoint({}, a.nets, a.id, TheEp(a)).demux : a \in ConcArgs }

\* The stack is in use when the goroutines start: CreateNIC, SetNICCoordinator,
\* SetRouteTable and RegisterTransportEndpoint have been called on it.
InitLife ==
    /\ handleLocal = FALSE
    /\ rawFactory = TRUE
    /\ saveRestoreEnabled = FALSE
    /\ restoredEndpoints = <<>>
    /\ resumableEndpoints = <<>>
    /\ tables = "s"
    /\ nftables = "s"
    /\ seed = "s"
    /\ tsOffsetSecret = "s"
    /\ defaultForwardingEnabled = {}
    /\ nics \in LifeNICs
    /\ routeTable \in LifeTables
    /\ nicIDGen = 0
    /\ peerNics = EmptyNICs
    /\ peerNICIDGen = 0
    /\ last = Returned("New", 0, NoRoute, 0, "nil")
    /\ beforeAdd = NoTable
    /\ setArg = NoTable
    /\ mu = Unlocked
    /\ routeMu = Unlocked
    /\ cleanupEndpointsMu = Unlocked
    /\ cleanupEndpoints = {}
    /\ threads = [t \in Threads |-> Idle]
    /\ calls = 0
    /\ demux \in LifeDemuxes

StepLife(t) ==
    \/ Acquire(t)
    \/ CloseCall(t)
    \/ DestroyCall(t)
    \/ CloseRegisteredEndpoints(t)
    \/ MethodReturn(t)
    \/ WaitEnter(t)
    \/ WaitRegisteredEndpoints(t)
    \/ WaitCleanupEndpoints(t)
    \/ WaitLoop(t)
    \/ removeNICLockedDelete(t)
    \/ removeNICLockedPurge(t)
    \/ removeNICLockedRemove(t)
    \/ RemoveNICUnlock(t)
    \/ DeferAct(t)
    \/ DeferActsDone(t)
    \/ \E a \in ConcArgs : UnregisterTransportEndpoint(t, a)
    \/ \E a \in ConcArgs : StartCleanupCall(t, a)
    \/ StartCleanupBody(t)
    \/ StartCleanupUnregister(t)
    \/ \E a \in ConcArgs : CompleteCleanupCall(t, a)
    \/ CompleteCleanupBody(t)

NextLife == \E t \in Threads : StepLife(t)

SpecLife == InitLife /\ [][NextLife]_vars

(***************************************************************************)
(* SpecSeed: the lifecycle methods and ReplaceConfig on a stack in use.    *)
(***************************************************************************)
StepSeed(t) ==
    \/ Acquire(t)
    \/ Pause(t)
    \/ EnableSaveRestore(t)
    \/ RegisterRestoredEndpoint(t, "e1")
    \/ RegisterResumableEndpoint(t, "e1")
    \/ RestoreCall(t)
    \/ RestoreTake(t)
    \/ RestoreEndpoint(t)
    \/ RestoreCallback(t)
    \/ RestoreProtocols(t)
    \/ ResumeCall(t)
    \/ ResumeTake(t)
    \/ ResumeEndpoint(t)
    \/ ResumeProtocols(t)
    \/ CloseCall(t)
    \/ DestroyCall(t)
    \/ CloseRegisteredEndpoints(t)
    \/ MethodReturn(t)
    \/ WaitEnter(t)
    \/ WaitRegisteredEndpoints(t)
    \/ WaitCleanupEndpoints(t)
    \/ WaitLoop(t)
    \/ removeNICLockedDelete(t)
    \/ removeNICLockedPurge(t)
    \/ removeNICLockedRemove(t)
    \/ RemoveNICUnlock(t)
    \/ DeferAct(t)
    \/ DeferActsDone(t)
    \/ ReplaceConfigCall(t)
    \/ ReplaceConfigSetRouteTable(t)
    \/ ReplaceConfigNICs(t)

NextSeed == \E t \in Threads : StepSeed(t)

\* The stack has NICs, and neither routes nor registered endpoints.
InitSeed ==
    /\ InitLife
    /\ routeTable = <<>>
    /\ demux = {}

SpecSeed == InitSeed /\ [][NextSeed]_vars

(***************************************************************************)
(* SpecGen: goroutines call NextNICID, on a generator that is fresh or two *)
(* ids away from the end of its range, next to the methods that write the  *)
(* NIC map.                                                                *)
(***************************************************************************)
\* The NIC ids callers pass to CreateNICWithOptions, 0 among them.
GenNICIDs == {0, 1, 2}

\* The stack is new, or NextNICID has been called MaxInt32 - 2 times on it.
InitGen ==
    /\ handleLocal = FALSE
    /\ rawFactory = TRUE
    /\ saveRestoreEnabled = FALSE
    /\ restoredEndpoints = <<>>
    /\ resumableEndpoints = <<>>
    /\ tables = "s"
    /\ nftables = "s"
    /\ seed = "s"
    /\ tsOffsetSecret = "s"
    /\ defaultForwardingEnabled = {}
    /\ nics = EmptyNICs
    /\ routeTable = <<>>
    /\ nicIDGen \in {0, MaxInt32 - 2}
    /\ peerNics = EmptyNICs
    /\ peerNICIDGen = 0
    /\ last = Returned("New", 0, NoRoute, 0, "nil")
    /\ beforeAdd = NoTable
    /\ setArg = NoTable
    /\ mu = Unlocked
    /\ routeMu = Unlocked
    /\ cleanupEndpointsMu = Unlocked
    /\ cleanupEndpoints = {}
    /\ threads = [t \in Threads |-> Idle]
    /\ calls = 0
    /\ demux = {}

NextGen ==
    \/ \E t \in Threads : NextNICIDAdd(t)
    \/ \E t \in Threads : NextNICIDReturn(t)
    \/ \E id \in GenNICIDs :
          CreateNICWithOptions(id, EndpointOf(id), [Name |-> "", Disabled |-> FALSE], FALSE)
    \/ \E id \in NICIDs : RemoveNIC(id, FALSE, FALSE)
    \/ \E st \in ConcStacks : nicIDGen \in 0..MaxNICIDGen /\ ReplaceConfig(st)

SpecGen == InitGen /\ [][NextGen]_vars

(***************************************************************************)
(* SpecChosen: FindRoute next to the methods that write the NIC map, the   *)
(* NIC flags and the route table.                                          *)
(***************************************************************************)
StepChosen(t) ==
    \/ Acquire(t)
    \/ Announce(t)
    \/ FindRouteCall(t)
    \/ FindRouteChecks(t)
    \/ FindRouteScan(t)
    \/ FindRouteReturn(t)
    \/ AddRouteCall(t)
    \/ AddRouteBody(t)
    \/ CreateNICCall(t)
    \/ CreateNICBody(t)
    \/ RemoveNICCall(t)
    \/ removeNICLockedDelete(t)
    \/ removeNICLockedPurge(t)
    \/ removeNICLockedRemove(t)
    \/ RemoveNICUnlock(t)
    \/ DeferAct(t)
    \/ DeferActsDone(t)
    \/ WaitCall(t)
    \/ WaitRegisteredEndpoints(t)
    \/ WaitCleanupEndpoints(t)
    \/ WaitLoop(t)
    \/ SetNICStackCall(t)
    \/ SetNICStackLocked(t)
    \/ SetNICStackRemoveRoutes(t)
    \/ SetNICStackUnlock(t)
    \/ SetNICStackPeer(t)
    \/ ReplaceConfigCall(t)
    \/ ReplaceConfigSetRouteTable(t)
    \/ ReplaceConfigNICs(t)

\* EnableNIC, DisableNIC and SetNICForwarding run under s.mu.RLock().
NextChosen ==
    \/ \E t \in Threads : StepChosen(t)
    \/ CanRLock(mu) /\ EnableNIC(1, FALSE)
    \/ CanRLock(mu) /\ DisableNIC(1)
    \/ CanRLock(mu) /\ SetNICForwarding(1, TRUE)

\* The stack has NIC 1 and no routes.
InitChosen ==
    /\ InitSeed
    /\ DOMAIN nics = {1}

SpecChosen == InitChosen /\ [][NextChosen]_vars

(***************************************************************************)
(* SpecStart: the cleanup of a registered endpoint next to Wait. The       *)
(* endpoint's cleanup is started while it is registered and completed      *)
(* after StartTransportEndpointCleanup has returned.                       *)
(***************************************************************************)
\* The goroutines inside StartTransportEndpointCleanup for the endpoint of a.
Starting(a) ==
    { t \in Inside({"StartTransportEndpointCleanup"}) : threads[t].arg.eps = a.eps }

\* The goroutines inside CompleteTransportEndpointCleanup for the endpoint of a.
Completing(a) ==
    { t \in Inside({"CompleteTransportEndpointCleanup"}) : threads[t].arg.eps = a.eps }

StepStart(t) ==
    \/ Acquire(t)
    \/ \E a \in ConcArgs :
          /\ \A n \in a.nets : findTransportEndpoint(demux, n, a.id) = TheEp(a)
          /\ Completing(a) = {}
          /\ StartCleanupCall(t, a)
    \/ StartCleanupBody(t)
    \/ StartCleanupUnregister(t)
    \/ \E a \in ConcArgs :
          /\ TheEp(a) \in cleanupEndpoints
          /\ Starting(a) = {}
          /\ CompleteCleanupCall(t, a)
    \/ CompleteCleanupBody(t)
    \/ \E a \in ConcArgs : RegisterTransportEndpoint(t, a)
    \/ WaitEnter(t)
    \/ WaitRegisteredEndpoints(t)
    \/ WaitCleanupEndpoints(t)
    \/ WaitLoop(t)
    \/ removeNICLockedDelete(t)
    \/ removeNICLockedPurge(t)
    \/ removeNICLockedRemove(t)
    \/ RemoveNICUnlock(t)
    \/ DeferAct(t)
    \/ DeferActsDone(t)

NextStart == \E t \in Threads : StepStart(t)

SpecStart == InitLife /\ [][NextStart]_vars

(***************************************************************************)
(* SpecClose: NIC 1 is removed and moved while its id is used again for a  *)
(* NIC that wraps another link endpoint.                                   *)
(***************************************************************************)
StepClose(t) ==
    \/ Acquire(t)
    \/ RemoveNICCall(t)
    \/ removeNICLockedDelete(t)
    \/ removeNICLockedPurge(t)
    \/ removeNICLockedRemove(t)
    \/ RemoveNICUnlock(t)
    \/ DeferAct(t)
    \/ DeferActsDone(t)
    \/ SetNICStackCall(t)
    \/ SetNICStackLocked(t)
    \/ SetNICStackRemoveRoutes(t)
    \/ SetNICStackUnlock(t)
    \/ SetNICStackPeer(t)

\* CreateNICWithOptions runs under s.mu.Lock().
NextClose ==
    \/ \E t \in Threads : StepClose(t)
    \/ \E ep \in {EndpointOf(1), EndpointOf(2)} :
          /\ mu = Unlocked
          /\ CreateNICWithOptions(1, ep, [Name |-> "", Disabled |-> FALSE], FALSE)

SpecClose == InitChosen /\ [][NextClose]_vars

(***************************************************************************)
(* Properties of the route table and of NIC removal.                       *)
(***************************************************************************)
\* The routes of table t that name NIC id.
RoutesOfNIC(t, id) == { n \in 1..Len(t) : t[n].NIC = id }

\* t with e in position p, the entries from p on moved back by one.
Inserted(t, p, e) == SubSeq(t, 1, p - 1) \o <<e>> \o SubSeq(t, p, Len(t))

\* t without the entries that are r.
Without(t, r) == SelectSeq(t, LAMBDA x : x # r)

\* The entries of t grouped by prefix length, longest first, each group in
\* the order of t.
RECURSIVE ByPrefix(_, _)
ByPrefix(t, lens) ==
    IF lens = {}
    THEN <<>>
    ELSE LET top == CHOOSE p \in lens : \A q \in lens : q <= p
         IN  SelectSeq(t, LAMBDA x : Prefix(x) = top) \o ByPrefix(t, lens \ {top})

StableByPrefix(t) == ByPrefix(t, { sn.Prefix : sn \in Subnets })

\* C1, for the calls that find the NIC: once RemoveNIC(id) has returned, and
\* before any other mutating call, HasNIC(id) is false and GetRouteTable()
\* holds no route whose NIC is id.
C1_RemoveNIC ==
    (last.op = "RemoveNIC" /\ last.err # "ErrUnknownNICID") =>
        ~HasNIC(last.id) /\ RoutesOfNIC(GetRouteTable, last.id) = {}

\* C2: after any sequence of calls the sequence GetRouteTable() returns is
\* sorted by non-increasing destination prefix length.
C2_Sorted == Sorted(GetRouteTable)

\* AddRoute put a route in front of a table that began with a shorter prefix.
C2_Witness ==
    /\ last.op = "AddRoute"
    /\ Len(beforeAdd) >= 2
    /\ Prefix(last.route) > Prefix(beforeAdd[1])
    /\ routeTable[1] = last.route

\* C3 as stated: AddRoute(r) puts r behind every entry with a strictly larger
\* prefix length and in front of every entry whose prefix length is smaller
\* than or equal to r's.
C3_AsStated ==
    last.op = "AddRoute" =>
        \E p \in 1..(Len(beforeAdd) + 1) :
            /\ GetRouteTable = Inserted(beforeAdd, p, last.route)
            /\ \A i \in 1..Len(beforeAdd) :
                  /\ i < p => Prefix(beforeAdd[i]) > Prefix(last.route)
                  /\ i >= p => Prefix(beforeAdd[i]) <= Prefix(last.route)

\* C3 amended: AddRoute(r) puts r behind every entry whose prefix length is
\* larger than or equal to r's and in front of every entry with a strictly
\* smaller prefix length: behind the entries of the same prefix length.
C3_AddRoute ==
    last.op = "AddRoute" =>
        \E p \in 1..(Len(beforeAdd) + 1) :
            /\ GetRouteTable = Inserted(beforeAdd, p, last.route)
            /\ \A i \in 1..Len(beforeAdd) :
                  /\ i < p => Prefix(beforeAdd[i]) >= Prefix(last.route)
                  /\ i >= p => Prefix(beforeAdd[i]) < Prefix(last.route)

\* AddRoute met another entry of the same prefix length and a shorter one.
C3_Witness ==
    /\ last.op = "AddRoute"
    /\ \E i, j \in 1..Len(beforeAdd) :
          /\ i < j
          /\ Prefix(beforeAdd[i]) = Prefix(last.route)
          /\ beforeAdd[i] # last.route
          /\ Prefix(beforeAdd[j]) < Prefix(last.route)

\* C4 as stated: AddRoute(r) followed by RemoveRoutes(x == r) leaves the
\* table equal to the table T before AddRoute, also when T contains r.
C4_AsStated ==
    (last.op = "RemoveRoutes" /\ beforeAdd # NoTable) => GetRouteTable = beforeAdd

\* C4 amended: AddRoute(r) followed by RemoveRoutes(x == r) leaves T without
\* its entries equal to r: T itself when T contains no route equal to r.
C4_RoundTrip ==
    (last.op = "RemoveRoutes" /\ beforeAdd # NoTable) =>
        /\ GetRouteTable = Without(beforeAdd, last.route)
        /\ (\A n \in 1..Len(beforeAdd) : beforeAdd[n] # last.route)
              => GetRouteTable = beforeAdd

\* The round trip ran on a table of several routes, none of them r, one of
\* them of r's prefix length.
C4_Witness ==
    /\ last.op = "RemoveRoutes"
    /\ beforeAdd # NoTable
    /\ Len(beforeAdd) >= 2
    /\ \A n \in 1..Len(beforeAdd) : beforeAdd[n] # last.route
    /\ \E n \in 1..Len(beforeAdd) : Prefix(beforeAdd[n]) = Prefix(last.route)

\* C5: SetRouteTable(t) followed by GetRouteTable() returns the routes of t,
\* none dropped or duplicated and nothing of the previous content, ordered by
\* decreasing prefix length, equal prefix lengths in their order in t; and
\* SetRouteTable(GetRouteTable()) would leave the table as it is.
C5_SetRouteTable ==
    /\ last.op = "SetRouteTable" => GetRouteTable = StableByPrefix(setArg)
    /\ setRouteTable(GetRouteTable) = GetRouteTable

\* SetRouteTable got an unsorted table with two routes of one prefix length.
C5_Witness ==
    /\ last.op = "SetRouteTable"
    /\ Len(setArg) >= 3
    /\ ~Sorted(setArg)
    /\ \E i, j \in 1..Len(setArg) :
          i < j /\ Prefix(setArg[i]) = Prefix(setArg[j]) /\ setArg[i] # setArg[j]

\* C6: after ReplaceRoute(r) exactly one entry is Equal to r and it is r, at
\* its prefix-ordered position; the entries not Equal to r keep their
\* relative order; r is added also when nothing matched.
C6_ReplaceRoute ==
    [][\A route \in Routes :
          ReplaceRoute(route) =>
              LET hit == { n \in 1..Len(routeTable') : Equal(routeTable'[n], route) }
              IN  /\ Cardinality(hit) = 1
                  /\ \A n \in hit :
                        /\ routeTable'[n] = route
                        /\ \A i \in 1..Len(routeTable') :
                              /\ i < n => Prefix(routeTable'[i]) >= Prefix(route)
                              /\ i > n => Prefix(routeTable'[i]) < Prefix(route)
                  /\ SelectSeq(routeTable', LAMBDA x : ~Equal(x, route))
                        = SelectSeq(routeTable, LAMBDA x : ~Equal(x, route))
                  /\ Len(routeTable') = Len(routeTable) + 1 - last'.ret]_vars

\* ReplaceRoute unlinked two entries Equal to the route and kept another one.
C6_Witness ==
    last.op = "ReplaceRoute" /\ last.ret >= 2 /\ Len(routeTable) >= 2

\* C7: RemoveRoutes(match) removes exactly the matching entries, returns how
\* many it removed (old length minus new length) and keeps the others in
\* their order; when nothing matches it returns 0 and the table is unchanged.
C7_RemoveRoutes ==
    [][\A m \in Matchers :
          RemoveRoutes(m) =>
              LET hit == { n \in 1..Len(routeTable) : Match(m, routeTable[n]) }
              IN  /\ routeTable' = SelectSeq(routeTable, LAMBDA x : ~Match(m, x))
                  /\ last'.ret = Cardinality(hit)
                  /\ last'.ret = Len(routeTable) - Len(routeTable')
                  /\ hit = {} => last'.ret = 0 /\ routeTable' = routeTable]_vars

\* RemoveRoutes unlinked two entries and kept another one.
C7_Witness ==
    last.op = "RemoveRoutes" /\ last.ret >= 2 /\ Len(routeTable) >= 1

(***************************************************************************)
(* Properties of the locking.                                              *)
(***************************************************************************)
\* The lock call t is blocked in is on mu.
RequestsMu(t) == threads[t].want \in {"mu.Lock", "mu.RLock"}

\* C8: no goroutine requests mu while it holds routeMu; no goroutine requests
\* a stack lock while it holds cleanupEndpointsMu; and whenever some goroutine
\* is inside the stack, one of the goroutines inside it can take a step.
C8_LockOrder ==
    /\ \A t \in Threads : RequestsMu(t) => ~Holds(routeMu, t)
    /\ \A t \in Threads : threads[t].want # "none" => ~Holds(cleanupEndpointsMu, t)
    /\ (\E t \in Threads : threads[t].pc # "idle")
          => ENABLED (\E t \in Threads : threads[t].pc # "idle" /\ Step(t))

\* One goroutine is inside mu and blocked in routeMu.Lock(), which the other
\* goroutine is inside.
C8_Witness ==
    \E t, u \in Threads :
        /\ t # u
        /\ mu.w = t
        /\ threads[t].want = "routeMu.Lock"
        /\ routeMu.w = u

\* t is about to run a deferred action returned by nic.remove.
RunsDeferred(t) ==
    \/ At(t, "deferAct") /\ threads[t].acts # <<>>
    \/ At(t, "SetNICStack.peer")

\* t is in the on-close callback, in the s.mu.Lock() of its RemoveNIC(id).
CallsBack(t) == threads[t].cb /\ threads[t].pc = "RemoveNIC" /\ threads[t].want = "mu.Lock"

\* C9: a goroutine that runs a deferred action of RemoveNIC, SetNICStack or
\* Wait, or the RemoveNIC(id) the closed link endpoint calls back, holds
\* neither mu nor routeMu; and it goes on to return from the method.
C9_DeferredAction ==
    /\ [](\A t \in Threads : (RunsDeferred(t) \/ CallsBack(t)) => ~Holds(mu, t) /\ ~Holds(routeMu, t))
    /\ \A t \in Threads : RunsDeferred(t) ~> (threads[t].pc = "idle")

\* The on-close callback has re-entered RemoveNIC and is inside mu, more
\* deferred actions of Wait still to run.
C9_Witness ==
    \E t \in Threads :
        /\ threads[t].cb
        /\ threads[t].pc = "RemoveNIC"
        /\ mu.w = t
        /\ threads[t].acts # <<>>

C11_UniqueNames == UniqueNames(nics) /\ UniqueNames(peerNics)

\* C13: CreateNICWithOptions returns ErrInvalidNICID whenever id is 0, and
\* ErrDuplicateNICID when id is in the NIC map or opts.Name is non-empty and
\* the name of a NIC present; when it returns one of the two, the NIC map and
\* the route table are as before and no step reached the link endpoint.
\* CreateNIC(id, ep) is CreateNICWithOptions with the default options.
C13_CreateNIC ==
    [][last'.op = "CreateNICWithOptions" =>
       /\ \A id \in NICIDs \cup {0}, opts \in [Name : Names, Disabled : BOOLEAN],
             enableErr \in BOOLEAN :
             CreateNICWithOptions(id, EndpointOf(id), opts, enableErr) =>
                 /\ id = 0 => last'.err = "ErrInvalidNICID"
                 /\ (/\ id # 0
                     /\ \/ id \in DOMAIN nics
                        \/ opts.Name # "" /\ \E i \in DOMAIN nics : nics[i].name = opts.Name)
                       => last'.err = "ErrDuplicateNICID"
                 /\ last'.err \in {"ErrInvalidNICID", "ErrDuplicateNICID"}
                       => nics' = nics /\ routeTable' = routeTable /\ last'.ret = 0
       /\ \A id \in NICIDs \cup {0}, enableErr \in BOOLEAN :
             CreateNIC(id, EndpointOf(id), enableErr) =>
                 /\ last'.err \in {"ErrInvalidNICID", "ErrDuplicateNICID", "ErrEnable", "nil"}
                 /\ last'.err \in {"ErrEnable", "nil"}
                       <=> (id # 0 /\ id \notin DOMAIN nics /\ nics' = MapPut(nics, id,
                               createdNIC(EndpointOf(id), [Name |-> "", Disabled |-> FALSE],
                                          enableErr)))]_vars

\* CreateNICWithOptions was refused a new id because of its name, on a stack
\* with routes.
C13_Witness ==
    /\ last.op = "CreateNICWithOptions"
    /\ last.err = "ErrDuplicateNICID"
    /\ last.id \notin DOMAIN nics
    /\ nics # EmptyNICs
    /\ routeTable # <<>>

(***************************************************************************)
(* Properties of the transport endpoints.                                  *)
(***************************************************************************)
\* C12 as stated: in every reachable state no transport endpoint is both
\* registered with the demuxer and in the cleanup set.
C12_AsStated ==
    \A e \in EPs : ~(e \in RegisteredEndpoints(demux) /\ e \in cleanupEndpoints)

\* C12 amended: StartTransportEndpointCleanup puts ep in the cleanup set and
\* leaves the registrations as they are, so a registered ep is in both; then,
\* outside the lock, it removes ep's registration and leaves the cleanup set
\* as it is, and on return ep is not registered under the call's id.
\* CompleteTransportEndpointCleanup takes ep out of the cleanup set and does
\* not touch the registrations.
C12_Cleanup ==
    [][\A t \in Threads :
          LET a == threads[t].arg
          IN  /\ StartCleanupBody(t) =>
                    /\ TheEp(a) \in cleanupEndpoints'
                    /\ cleanupEndpoints \subseteq cleanupEndpoints'
                    /\ demux' = demux
              /\ StartCleanupUnregister(t) =>
                    /\ cleanupEndpoints' = cleanupEndpoints
                    /\ demux' \subseteq demux
                    /\ \A g \in demux \ demux' : g.ep = TheEp(a)
                    /\ \A n \in a.nets : findTransportEndpoint(demux', n, a.id) # TheEp(a)
              /\ CompleteCleanupBody(t) =>
                    /\ TheEp(a) \notin cleanupEndpoints'
                    /\ cleanupEndpoints' \subseteq cleanupEndpoints
                    /\ demux' = demux]_vars

\* A goroutine is between the two halves of StartTransportEndpointCleanup
\* and its endpoint is registered and in the cleanup set.
C12_Witness ==
    \E t \in Threads :
        /\ At(t, "StartTransportEndpointCleanup.unregister")
        /\ TheEp(threads[t].arg) \in RegisteredEndpoints(demux)
        /\ TheEp(threads[t].arg) \in cleanupEndpoints

(***************************************************************************)
(* Properties of FindRoute.                                                *)
(***************************************************************************)
\* The calls with a registered protocol, an id and a remote address that
\* needs no route.
DirectQueries == { q \in Queries : q.netOK /\ q.id # 0 /\ ~needRoute(q.remoteAddr) }

\* NIC id is present, enabled and yields an address endpoint.
DirectOK(q) ==
    q.id \in DOMAIN nics /\ nics[q.id].enabled /\ getAddressEP(nics[q.id], q.localAddr) # ""

\* r is what C14 says such a call returns: the route through NIC id built
\* from no table entry or, when there is none, the error.
IsDirect(r, q) ==
    IF DirectOK(q)
    THEN /\ r.err = "nil"
         /\ r.route.outgoingNIC = q.id
         /\ r.route.localAddressNIC = q.id
         /\ r.route.gateway = 0
         /\ r.route.mtu = "0"
         /\ r.route.entry = 0
    ELSE r = Failed(IF q.remoteAddr \in {"lo4", "lo6"}
                    THEN "ErrBadLocalAddress"
                    ELSE "ErrNetworkUnreachable")

\* C14 as stated: FindRoute with id != 0 and a remote address that needs no
\* route returns a route whose outgoing NIC and local-address NIC are id,
\* with empty gateway and MTU 0 and built from no table entry, if NIC id is
\* present, enabled and yields an address endpoint, else BadLocalAddress for
\* a loopback remote and NetworkUnreachable otherwise.
C14_AsStated == \A q \in DirectQueries : \A r \in Results(q) : IsDirect(r, q)

\* C14, amended: the same, for the calls that find no local route. A call
\* that finds one returns it instead, whatever the state of NIC id, and its
\* outgoing NIC is the NIC that owns the remote address.
C14_Direct ==
    \A q \in DirectQueries : \A r \in Results(q) :
        IF localRoute(nics, handleLocal, q) = {}
        THEN IsDirect(r, q) /\ ~r.route.local
        ELSE r.err = "nil" /\ r.route.local /\ q.remoteAddr \in nics[r.route.outgoingNIC].addrs

\* FindRoute returned a route on a stack that handles local traffic and has
\* routes, where a call for NIC 1 gets its direct route to a link-local or
\* loopback remote.
C14_Witness ==
    /\ last.op = "FindRoute"
    /\ last.err = "nil"
    /\ handleLocal
    /\ routeTable # <<>>
    /\ \E q \in DirectQueries :
          /\ q.id = 1
          /\ q.remoteAddr \in {"ll", "lo4"}
          /\ Results(q) = {Found(makeRoute(1, 1, 0, "0", 0))}

\* The calls that reach the scan of the route table: the protocol is
\* registered, no local route is found, and id is 0 or a route is needed.
ScanQueries ==
    { q \in Queries : /\ q.netOK
                      /\ localRoute(nics, handleLocal, q) = {}
                      /\ q.id = 0 \/ needRoute(q.remoteAddr) }

\* Entry n of the table is one C15 describes: its destination contains the
\* remote address (any destination does when the remote address is empty),
\* its NIC is present and enabled and is NIC id when id is not 0, and the
\* NIC yields an address endpoint.
Usable(n, q) ==
    LET route == routeTable[n]
    IN  /\ q.remoteAddr # "" => Contains(route.Destination, q.remoteAddr)
        /\ route.NIC \in DOMAIN nics
        /\ nics[route.NIC].enabled
        /\ q.id = 0 \/ q.id = route.NIC
        /\ getAddressEP(nics[route.NIC], q.localAddr) # ""

\* The first such entry, 0 if there is none.
First(q) ==
    IF \E n \in 1..Len(routeTable) : Usable(n, q)
    THEN CHOOSE n \in 1..Len(routeTable) :
             Usable(n, q) /\ \A k \in 1..(n - 1) : ~Usable(k, q)
    ELSE 0

\* The route built from entry n: through the entry's NIC with that NIC's
\* address, the entry's gateway iff a route is needed, the entry's MTU.
TableRoute(n, q) ==
    [outgoingNIC |-> routeTable[n].NIC, localAddressNIC |-> routeTable[n].NIC,
     gateway |-> IF q.remoteAddr \in {"", "g1", "g2"} THEN routeTable[n].Gateway ELSE 0,
     mtu |-> "route.MTU", entry |-> n, local |-> FALSE]

\* Every route FindRoute builds from a table entry leaves through the NIC
\* of the entry, which is present and enabled, and the entry's destination
\* contains the remote address if there is one.
NoSkippedEntry(q) ==
    \A r \in Results(q) :
        r.route.entry # 0 =>
            LET route == routeTable[r.route.entry]
            IN  /\ r.route.outgoingNIC = route.NIC
                /\ route.NIC \in DOMAIN nics
                /\ nics[route.NIC].enabled
                /\ q.remoteAddr # "" => Contains(route.Destination, q.remoteAddr)

\* C15 as stated: the scan returns the route built from the first entry, in
\* table order, whose destination contains the remote address (any entry
\* when it is empty), whose NIC is present, enabled and equal to id when id
\* is not 0, and that yields an address endpoint; the route has the entry's
\* gateway iff a route is needed, and no route is built from an entry whose
\* NIC is absent or disabled.
C15_AsStated ==
    \A q \in ScanQueries :
        /\ First(q) # 0 => Results(q) = {[route |-> TableRoute(First(q), q), err |-> "nil"]}
        /\ NoSkippedEntry(q)

\* An entry before entry n is on a forwarding NIC and gives a call that is
\* not locally generated a route with the local address of another NIC.
EarlierCross(n, q) ==
    /\ q.id = 0 /\ q.localAddr = "" /\ q.remoteAddr # "ll"
    /\ \E k \in 1..(n - 1) :
          /\ q.remoteAddr # "" => Contains(routeTable[k].Destination, q.remoteAddr)
          /\ routeTable[k].NIC \in DOMAIN nics
          /\ nics[routeTable[k].NIC].enabled
          /\ isNICForwarding(nics[routeTable[k].NIC], FindProto)
          /\ q.crossOK
          /\ \E a \in DOMAIN nics : nics[a].addrs # {}

\* C15, amended: the same, unless the call is not locally generated and an
\* earlier entry on a forwarding NIC gives it a cross-NIC route: then the
\* route is built from the first such earlier entry, with the local address
\* of another NIC and the entry's gateway.
C15_Scan ==
    \A q \in ScanQueries :
        /\ (First(q) # 0 /\ ~EarlierCross(First(q), q))
              => Results(q) = {[route |-> TableRoute(First(q), q), err |-> "nil"]}
        /\ (First(q) # 0 /\ EarlierCross(First(q), q))
              => \A r \in Results(q) :
                     /\ r.err = "nil"
                     /\ r.route.entry \in 1..(First(q) - 1)
                     /\ r.route.localAddressNIC # r.route.outgoingNIC
                     /\ r.route.gateway = routeTable[r.route.entry].Gateway
        /\ NoSkippedEntry(q)

\* FindRoute returned a route on a table of two entries, where a call whose
\* remote address needs a route gets the route of the second entry, the
\* first one being on a NIC that is disabled or gives no address endpoint.
C15_Witness ==
    /\ last.op = "FindRoute"
    /\ last.err = "nil"
    /\ Len(routeTable) = 2
    /\ \E q \in ScanQueries :
          /\ q.remoteAddr = "g2"
          /\ First(q) = 2
          /\ Contains(routeTable[1].Destination, q.remoteAddr)
          /\ Results(q) = {[route |-> TableRoute(2, q), err |-> "nil"]}

\* Entry n is one the forwarding fallback looks at: the scan does not skip it
\* and builds no route from it, its NIC forwards and only global addresses
\* are involved.
Fwd(n, q) ==
    LET route == routeTable[n]
    IN  /\ q.remoteAddr # "" => Contains(route.Destination, q.remoteAddr)
        /\ route.NIC \in DOMAIN nics
        /\ nics[route.NIC].enabled
        /\ ~Usable(n, q)
        /\ isNICForwarding(nics[route.NIC], FindProto)
        /\ q.localAddr # "ll" /\ q.remoteAddr # "ll"

\* The NICs whose address a route leaving through NIC out may use.
Holders(out, q) ==
    { a \in DOMAIN nics : /\ getAddressEP(nics[a], q.localAddr) # ""
                          /\ a = out \/ q.crossOK }

\* r is a route built from entry n with the local address of NIC a.
IsCross(r, n, a) ==
    /\ r.err = "nil"
    /\ r.route.entry = n
    /\ r.route.outgoingNIC = routeTable[n].NIC
    /\ r.route.localAddressNIC = a
    /\ ~r.route.local

\* The least element of a non-empty set of entries.
Least(S) == CHOOSE n \in S : \A k \in S : n <= k

FindRouteErrors ==
    {"ErrUnknownProtocol", "ErrBadLocalAddress", "ErrNetworkUnreachable", "ErrHostUnreachable"}

\* r is a route with a nil error or no route with one of the four errors.
WellFormed(r) ==
    \/ r.err = "nil" /\ r.route.outgoingNIC # 0 /\ r.route.localAddressNIC # 0
    \/ r.err \in FindRouteErrors /\ r.route = NilRoute

LocalRoutes(q) ==
    LET l == IF q.localAddr = "" THEN q.remoteAddr ELSE q.localAddr
        searched == IF q.id = 0 THEN DOMAIN nics ELSE {q.id} \cap DOMAIN nics
    IN  { p \in searched \X DOMAIN nics :
            /\ l \in nics[p[1]].addrs
            /\ q.remoteAddr \in nics[p[2]].addrs
            /\ q.remoteAddr \in nics[p[1]].addrs => p[2] = p[1] }

Committed == IF last.op = "SetRouteTable" THEN setRouteTable(setArg) ELSE <<>>

\* C19: the table GetRouteTable copies and the table FindRoute scans is the
\* complete table of the last SetRouteTable that returned, never the table
\* a SetRouteTable in progress has emptied or is rebuilding; and when
\* SetRouteTable returns, the table is the complete new one.
C19_Atomic ==
    [][\A t \in Threads :
          /\ (GetRouteTableBody(t) \/ FindRouteScan(t)) => routeTable = Committed
          /\ SetRouteTableUnlock(t) => routeTable = setRouteTable(threads[t].table)]_vars

\* A goroutine is inside GetRouteTable or the scan of FindRoute and reads a
\* table of two routes, while the other one is blocked in the Lock() of a
\* SetRouteTable with a different table.
C19_Witness ==
    \E t \in Threads, u \in Threads :
        /\ threads[t].pc \in {"GetRouteTable", "FindRoute.scan"}
        /\ threads[t].want = "none"
        /\ Len(routeTable) = 2
        /\ threads[u].pc = "SetRouteTable.Reset"
        /\ threads[u].want = "routeMu.Lock"
        /\ setRouteTable(threads[u].table) # routeTable

(***************************************************************************)
(* Properties of the registrations.                                        *)
(***************************************************************************)
\* Registration g is one of ep under id for the network protocols of a.
RegistrationOf(g, a) == g.net \in a.nets /\ g.id = a.id /\ g.ep = TheEp(a)

C28_UnknownNICID ==
    [][last'.op \in NICMutators /\ last'.id \notin DOMAIN nics
          => /\ last'.err = "ErrUnknownNICID"
             /\ nics' = nics
             /\ routeTable' = routeTable
             /\ peerNics' = peerNics]_vars

\* SetNICMTU was called with the id of a NIC that is not there, on a stack
\* with a NIC and a route.
C28_Witness ==
    /\ last.op = "SetNICMTU"
    /\ last.err = "ErrUnknownNICID"
    /\ last.id \notin DOMAIN nics
    /\ nics # EmptyNICs
    /\ routeTable # <<>>

\* The error SetNICCoordinator(id, mid) returns on NIC map m, by the order of
\* its checks.
CoordinatorError(m, id, mid, addErr) ==
    CASE id \notin DOMAIN m -> "ErrUnknownNICID"
      [] id \in DOMAIN m /\ m[id].coord -> "ErrNoSuchFile"
      [] id \in DOMAIN m /\ ~m[id].coord /\ mid \notin DOMAIN m -> "ErrUnknownNICID"
      [] id \in DOMAIN m /\ ~m[id].coord /\ mid \in DOMAIN m /\ ~m[mid].coord -> "ErrNotSupported"
      [] OTHER -> IF addErr THEN "ErrCoordinator" ELSE "nil"

\* C29: SetNICCoordinator(id, mid) returns ErrUnknownNICID if id is absent,
\* else ErrNoSuchFile if the link endpoint of NIC id is a coordinator, else
\* ErrUnknownNICID if mid is absent, else ErrNotSupported if the link endpoint
\* of NIC mid is no coordinator, else the error of AddNIC; the Primary of NIC
\* id becomes mid when it returns nil, and no nic changes when it returns an
\* error.
C29_SetNICCoordinator ==
    [][last'.op = "SetNICCoordinator" =>
          \A id \in NICIDs, mid \in NICIDs, addErr \in BOOLEAN :
             SetNICCoordinator(id, mid, addErr) =>
                 /\ last'.err = CoordinatorError(nics, id, mid, addErr)
                 /\ last'.err = "nil" =>
                       /\ DOMAIN nics' = DOMAIN nics
                       /\ nics'[id].Primary = mid
                       /\ \A i \in DOMAIN nics : nics'[i] = [nics[i] EXCEPT !.Primary =
                                                                 IF i = id THEN mid ELSE @]
                 /\ last'.err # "nil" => nics' = nics]_vars

\* AddNIC of the coordinator failed after every check had passed: NIC 1 has
\* no coordinator.
C29_Witness ==
    /\ last.op = "SetNICCoordinator"
    /\ last.err = "ErrCoordinator"
    /\ {1, 2} \subseteq DOMAIN nics
    /\ nics[1].Primary = 0

(***************************************************************************)
(* Properties of the raw and packet endpoints.                             *)
(***************************************************************************)
\* C30: on a stack built without a raw factory, NewRawEndpoint and
\* NewPacketEndpoint return ErrNotPermitted for every protocol number,
\* registered or not, and for associated and cooked true and false: the
\* factory is looked at before the protocol is.
C30_NotPermitted ==
    ~rawFactory =>
        (last.op \in {"NewRawEndpoint", "NewPacketEndpoint"} => last.err = "ErrNotPermitted")

\* Without a raw factory, an associated raw endpoint was asked for a
\* transport protocol that is not registered.
C30_Witness ==
    /\ ~rawFactory
    /\ last.op = "NewRawEndpoint"
    /\ last.id \notin transportProtocols
    /\ last.ret = 1
    /\ last.err = "ErrNotPermitted"

(***************************************************************************)
(* Properties of SetNICStack.                                              *)
(***************************************************************************)
\* After SetNICStack(id, peer) with id present and peer another stack: id is
\* not in the NIC map, no route names it, and the link endpoint is open.
Moved(id) ==
    /\ id \notin DOMAIN nics'
    /\ RoutesOfNIC(routeTable', id) = {}
    /\ ~last'.closed

\* The link endpoint of NIC id is attached to the peer under the id returned,
\* which the peer's generator has just allocated.
Attached(id) ==
    /\ peerNICIDGen' = peerNICIDGen + 1
    /\ last'.ret = peerNICIDGen'
    /\ last'.ret \notin DOMAIN peerNics
    /\ last'.ret \in DOMAIN peerNics'
    /\ peerNics'[last'.ret].coord = nics[id].coord
    /\ peerNics'[last'.ret].name = nics[id].name
    /\ peerNics'[last'.ret].stack = "peer"
    /\ peerNics'[last'.ret].enabled

\* The moves of SpecMove.
Moves == [id : NICIDs, self : BOOLEAN, remErr : BOOLEAN, enableErr : BOOLEAN]

C25_ReplaceConfig ==
    [][last'.op = "ReplaceConfig" =>
          \A st \in LoadedStacks \cup {NilStack} :
             ReplaceConfig(st) =>
                 IF st = NilStack
                 THEN last'.err = "panic"
                 ELSE /\ last'.err = "nil"
                      /\ routeTable' = st.routeTable
                      /\ DOMAIN nics' = DOMAIN st.nics
                      /\ \A i \in DOMAIN st.nics :
                            /\ nics'[i] = [st.nics[i] EXCEPT !.stack = "s"]
                            /\ \A k \in DOMAIN nics : nics[k] # st.nics[i]
                      /\ tables' = st.tables
                      /\ nftables' = st.nftables
                      /\ UNCHANGED <<cleanupEndpoints, restoredEndpoints, resumableEndpoints,
                                     seed, tsOffsetSecret, saveRestoreEnabled>>]_vars

\* ReplaceConfig has put a NIC and a route of st into a stack that has a
\* cleanup endpoint, a restored endpoint and saveRestoreEnabled set.
C25_Witness ==
    /\ last.op = "ReplaceConfig"
    /\ last.err = "nil"
    /\ nics # EmptyNICs
    /\ routeTable # <<>>
    /\ tables = "st"
    /\ cleanupEndpoints # {}
    /\ restoredEndpoints # <<>>
    /\ saveRestoreEnabled

\* C26: after s.ReplaceConfig(st) no id that NextNICID returns is the id of a
\* NIC that ReplaceConfig has put into the NIC map, whatever the ids of st
\* are. (In SpecCfg every NIC of the map comes from ReplaceConfig.)
C26_FreshNICID == last.op = "NextNICID" => last.ret \notin DOMAIN nics

(***************************************************************************)
(* Properties of Restore and Resume.                                       *)
(***************************************************************************)
\* The calls a method that has taken the list taken makes on its endpoints:
\* call on each, one at a time, in the order of taken.
CalledInOrder(done, taken, call) ==
    \A i \in 1..Len(taken) :
       /\ done[2 + i].call = call
       /\ done[2 + i].objs = {taken[i]}

\* What Restore has done when it returns: it took the list, called Restore
\* on each endpoint of it in order, passed the barrier, and called
\* Restore (sre) or Resume (not sre) on the transport protocols.
RestoreDone(th) ==
    /\ Len(th.done) >= 2
    /\ th.done[2].call = "take"
    /\ LET taken == th.done[2].objs
           n == Len(taken)
       IN  /\ Len(th.done) = n + 4
           /\ CalledInOrder(th.done, taken, "e.Restore")
           /\ th.done[n + 3].call = "AsyncLoading.Wait"
           /\ th.done[n + 4].call = (IF th.sre THEN "transport.Restore" ELSE "transport.Resume")
           /\ th.done[n + 4].objs = transportProtocols

\* What Resume has done when it returns: it took the list, called Resume on
\* each endpoint of it in order, and then on the transport protocols.
ResumeDone(th) ==
    /\ Len(th.done) >= 2
    /\ th.done[2].call = "take"
    /\ LET taken == th.done[2].objs
           n == Len(taken)
       IN  /\ Len(th.done) = n + 3
           /\ CalledInOrder(th.done, taken, "e.Resume")
           /\ th.done[n + 3].call = "transport.Resume"
           /\ th.done[n + 3].objs = transportProtocols

\* t is about to return from the method that entered as call.
Returning(t, call) ==
    /\ threads[t].pc = "return"
    /\ threads[t].done # <<>>
    /\ threads[t].done[1].call = call

\* l is s followed by at most one more entry.
Appended(s, l) == l = s \/ (Len(l) = Len(s) + 1 /\ SubSeq(l, 1, Len(s)) = s)

\* C23: Restore takes restoredEndpoints, which is in registration order, and
\* saveRestoreEnabled under mu; it calls Restore(s) on every endpoint taken,
\* in that order, holding no lock of the stack, so that a callback blocked in
\* s.mu.Lock() is never blocked by Restore itself; after the last endpoint
\* and the barrier it calls Restore on every transport protocol when the
\* saveRestoreEnabled it read is true, and Resume otherwise.
C23_Restore ==
    /\ [](\A t \in Threads :
            /\ (threads[t].pc \in {"Restore.range", "Restore.callback"}
                /\ (threads[t].pc = "Restore.callback" => threads[t].want # "none"))
               => ~Holds(mu, t) /\ ~Holds(routeMu, t) /\ ~Holds(cleanupEndpointsMu, t)
            /\ Returning(t, "Restore()") => RestoreDone(threads[t]))
    /\ [][\A t \in Threads :
            (threads[t].pc = "Restore" /\ threads'[t].pc = "Restore.range")
            => /\ threads'[t].eps = restoredEndpoints
               /\ threads'[t].done[2].objs = restoredEndpoints
               /\ threads'[t].sre = saveRestoreEnabled
               /\ mu.w = t]_vars
    /\ [][Appended(restoredEndpoints, restoredEndpoints') \/ restoredEndpoints' = <<>>]_vars

\* C23, witness: Restore is about to return after it took two different
\* endpoints.
C23_Witness ==
    \E t \in Threads :
       /\ Returning(t, "Restore()")
       /\ Len(threads[t].done[2].objs) = 2
       /\ threads[t].done[2].objs[1] # threads[t].done[2].objs[2]

\* C24, as stated: no step shortens restoredEndpoints or resumableEndpoints.
C24_AsStated ==
    [][/\ Appended(restoredEndpoints, restoredEndpoints')
       /\ Appended(resumableEndpoints, resumableEndpoints')]_vars

\* C24, amended: a step leaves each list alone, or appends one endpoint to
\* it, or is the step of Restore (Resume) that takes the whole list and
\* leaves it empty; so an endpoint is called by the next Restore (Resume)
\* and by no later one. Resume calls Resume on every endpoint it took, in
\* order, and then on every transport protocol.
C24_Lists ==
    /\ [](\A t \in Threads : Returning(t, "Resume()") => ResumeDone(threads[t]))
    /\ [][/\ \/ Appended(restoredEndpoints, restoredEndpoints')
             \/ /\ restoredEndpoints' = <<>>
                /\ \E t \in Threads :
                      /\ threads[t].pc = "Restore"
                      /\ threads'[t].pc = "Restore.range"
                      /\ threads'[t].eps = restoredEndpoints
          /\ \/ Appended(resumableEndpoints, resumableEndpoints')
             \/ /\ resumableEndpoints' = <<>>
                /\ \E t \in Threads :
                      /\ threads[t].pc = "Resume"
                      /\ threads'[t].pc = "Resume.range"
                      /\ threads'[t].eps = resumableEndpoints]_vars

\* C24, witness: Resume is about to return; it took a registered endpoint
\* and the list is empty, so that the next Resume will not call it.
C24_Witness ==
    \E t \in Threads :
       /\ Returning(t, "Resume()")
       /\ Len(threads[t].done[2].objs) = 1
       /\ resumableEndpoints = <<>>

(***************************************************************************)
(* Properties of Close, Wait and Destroy.                                  *)
(***************************************************************************)
\* The positions of done at which call was made on obj.
CallsOn(done, call, obj) ==
    { i \in 1..Len(done) : done[i].call = call /\ obj \in done[i].objs }

\* The positions of done at which one of calls was made.
CallsOf(done, calls_) == { i \in 1..Len(done) : done[i].call \in calls_ }

\* t has run the last deferred action of the Wait that entered as call, and
\* is about to return.
Finishing(t, call) ==
    /\ threads[t].pc = "deferAct"
    /\ threads[t].acts = <<>>
    /\ threads[t].done # <<>>
    /\ threads[t].done[1].call = call

\* Within Close no protocol is closed before an endpoint is aborted.
AbortBeforeClose(done) ==
    \A i \in CallsOf(done, {"e.Abort"}) :
       \A j \in CallsOf(done, {"transport.Close", "network.Close"}) : i < j

\* C21, as stated: when Destroy is about to return, every endpoint that was
\* registered when it started has been aborted and later waited on.
C21_AsStated ==
    \A t \in Threads :
       Finishing(t, "Destroy()") =>
          \A e \in threads[t].done[1].objs :
             \E i \in CallsOn(threads[t].done, "e.Abort", e) :
                \E j \in CallsOn(threads[t].done, "e.Wait", e) : i < j

\* C21, amended: Close aborts the endpoints that are registered when its
\* RegisteredEndpoints() reads them under mu, all of them before it closes
\* the transport and then the network protocols; Wait waits on the endpoints
\* that are registered when its own RegisteredEndpoints() reads them, and
\* then on those in the cleanup set when CleanupEndpoints() reads it. An
\* aborted endpoint is thus waited on if it is still registered, or in the
\* cleanup set, at those moments.
C21_CloseWait ==
    /\ [](\A t \in Threads :
            LET done == threads[t].done
            IN  (done # <<>> /\ done[1].call \in {"Close()", "Destroy()"} /\ Len(done) > 1)
                => /\ Len(done) >= 4
                   /\ done[2].call = "e.Abort"
                   /\ done[3] = [call |-> "transport.Close", objs |-> transportProtocols]
                   /\ done[4] = [call |-> "network.Close", objs |-> NetProtos]
                   /\ AbortBeforeClose(done)
                   /\ Len(done) >= 5 => done[1].call = "Destroy()" /\ done[5].call = "e.Wait"
                   /\ Len(done) >= 6 => done[6].call = "e.Wait")
    /\ [][\A t \in Threads :
            LET th == threads[t]
                done == threads'[t].done
            IN  (th.done # <<>> /\ th.done[1].call = "Destroy()")
                => /\ (th.pc = "Close" /\ th.want = "none" /\ threads'[t].pc # "Close")
                      => done[2].objs = RegisteredEndpoints(demux)
                   /\ (th.pc = "Wait" /\ threads'[t].pc = "Wait.cleanup")
                      => done[5].objs = RegisteredEndpoints(demux)
                   /\ (th.pc = "Wait.cleanup" /\ threads'[t].pc = "Wait.loop")
                      => done[6].objs = cleanupEndpoints]_vars

\* C21, witness: Destroy is about to return; it aborted an endpoint and
\* later waited on it.
C21_Witness ==
    \E t \in Threads :
       /\ Finishing(t, "Destroy()")
       /\ threads[t].done[2].objs # {}
       /\ threads[t].done[2].objs \subseteq threads[t].done[5].objs \cup threads[t].done[6].objs

\* C22: when Wait is about to return, it made every wait on endpoints and
\* protocols before it removed the first NIC; every NIC it removed had its
\* routes purged, was dismantled (nic.remove) and had its link endpoint
\* waited on; every deferred action it collected was run once. When it
\* leaves the loop and unlocks mu, the NIC map is empty.
C22_Wait ==
    /\ [](\A t \in Threads :
            Finishing(t, "Wait()") =>
               LET done == threads[t].done
               IN  /\ \A i \in CallsOf(done, {"e.Wait", "transport.Wait", "network.Wait"}) :
                         \A j \in CallsOf(done, {"removeNICLocked"}) : i < j
                   /\ Cardinality(CallsOf(done, {"e.Wait"})) = 2
                   /\ \A id \in NICIDs :
                         /\ CallsOn(done, "removeNICLocked", id) # {}
                            => /\ Cardinality(CallsOn(done, "purge", id)) = 1
                               /\ Cardinality(CallsOn(done, "nic.remove", id)) = 1
                               /\ Cardinality(CallsOn(done, "link.Wait", id)) = 1
                         /\ Cardinality(CallsOn(done, "act", id))
                               = Cardinality(CallsOn(done, "deferAct", id)))
    /\ [][\A t \in Threads :
            (threads[t].pc = "Wait.loop" /\ threads[t].want = "none"
             /\ threads'[t].pc = "deferAct")
            => nics' = EmptyNICs]_vars

C32_ForwardingDefault ==
    [][/\ last'.op = "SetForwardingDefaultAndAllNICs" =>
             IF last'.err = "nil"
             THEN /\ DOMAIN nics' = DOMAIN nics
                  /\ \A i \in DOMAIN nics :
                        isNICForwarding(nics'[i], last'.id) <=> last'.ret = 1
                  /\ \A p \in NetworkNumbers \ {last'.id} :
                        /\ p \in defaultForwardingEnabled' <=> p \in defaultForwardingEnabled
                        /\ \A i \in DOMAIN nics :
                              isNICForwarding(nics'[i], p) <=> isNICForwarding(nics[i], p)
                  /\ last'.id \in defaultForwardingEnabled' <=> last'.ret = 1
             ELSE defaultForwardingEnabled' = defaultForwardingEnabled
       /\ last'.op # "SetForwardingDefaultAndAllNICs" =>
             defaultForwardingEnabled' = defaultForwardingEnabled
       /\ (last'.op = "CreateNICWithOptions" /\ last'.err \in {"nil", "ErrEnable"}) =>
             /\ last'.id \in DOMAIN nics' \ DOMAIN nics
             /\ nics'[last'.id].forwarding = defaultForwardingEnabled]_vars

\* C32, witness: CreateNICWithOptions has returned a NIC that forwards the
\* protocols of a default set that is not empty, next to a NIC that was
\* there when the default was set.
C32_Witness ==
    /\ last.op = "CreateNICWithOptions"
    /\ last.err = "nil"
    /\ defaultForwardingEnabled # {}
    /\ nics[last.id].forwarding = defaultForwardingEnabled
    /\ DOMAIN nics # {last.id}

\* C35: a panic of SetForwardingDefaultAndAllNICs or of CreateNICWithOptions
\* is one of forwarding support that is not uniform: the protocol that
\* failed is registered, so that it failed on this NIC and not on every one.
\* A protocol that no NIC can forward never makes a call panic.
C35_Panics ==
    (last.err = "panic" /\ last.op \in {"SetForwardingDefaultAndAllNICs", "CreateNICWithOptions"})
    => IF last.op = "CreateNICWithOptions"
       THEN \A proto \in defaultForwardingEnabled :
               setForwardingErr(last.id, proto) # "nil" => proto \in NetProtos
       ELSE last.id \in NetProtos

(***************************************************************************)
(* Properties of the seed.                                                 *)
(***************************************************************************)
\* C33: Seed() and tsOffsetSecret are the values New drew, whatever Pause,
\* Resume, Restore, ReplaceConfig, Close, Wait, Destroy and EnableSaveRestore
\* have done since.
C33_SeedFixed ==
    /\ Seed = "s"
    /\ tsOffsetSecret = "s"

\* C33, witness: ReplaceConfig has taken over the tables of another stack,
\* save and restore is enabled and Wait has emptied the NIC map it found.
C33_Witness ==
    /\ tables = "st"
    /\ saveRestoreEnabled
    /\ \E t \in Threads : threads[t].fn = "Wait" /\ threads[t].pc = "deferAct"
    /\ DOMAIN nics = {}
    /\ Seed = "s"

(***************************************************************************)
(* Properties of the NIC id generator.                                     *)
(***************************************************************************)
\* The goroutines that hold the result of s.nicIDGen.Add(1).
InNextNICID == { t \in Threads : threads[t].pc = "NextNICID" }

\* C34: an id NextNICID returns is positive; the ids obtained by calls in
\* progress differ from each other and from the id returned last; a call
\* gets an id greater than every id obtained before it, also by the calls
\* still in progress, and once the counter has passed MaxInt32 it panics
\* and returns no id; no key of the NIC map is 0.
C34_NextNICID ==
    /\ [](/\ last.op = "NextNICID" =>
                IF last.err = "nil" THEN last.ret > 0 ELSE last.err = "panic"
          /\ \A t, u \in InNextNICID : t # u => threads[t].id # threads[u].id
          /\ \A t \in InNextNICID :
                (last.op = "NextNICID" /\ last.err = "nil") => threads[t].id # last.ret
          /\ 0 \notin DOMAIN nics)
    /\ [][\A t \in Threads :
             /\ (t \notin InNextNICID /\ threads'[t].pc = "NextNICID") =>
                   LET next == threads'[t].id
                   IN  /\ next = IF nicIDGen = MaxInt32 THEN MinInt32 ELSE nicIDGen + 1
                       /\ next >= 0 =>
                             /\ \A u \in InNextNICID : next > threads[u].id
                             /\ (last.op = "NextNICID" /\ last.err = "nil") => next > last.ret
             /\ (t \in InNextNICID /\ threads'[t].pc # "NextNICID") =>
                   /\ last'.op = "NextNICID"
                   /\ IF threads[t].id < 0
                      THEN last'.err = "panic"
                      ELSE last'.err = "nil" /\ last'.ret = threads[t].id]_vars

\* C34, witness: a call has panicked on the counter that overflowed while
\* another call is in progress.
C34_Witness ==
    /\ last.op = "NextNICID"
    /\ last.err = "panic"
    /\ nicIDGen < 0
    /\ InNextNICID # {}

(***************************************************************************)
(* Properties of FindRoute next to the writers of the NIC map.             *)
(***************************************************************************)
\* C36: from the walk of FindRoute to the lookup that follows it the NIC of
\* the route the walk remembered is in the NIC map, whatever the other
\* goroutines do in between, and no goroutine reaches the panic of that
\* lookup.
C36_ChosenNIC ==
    \A t \in Threads :
       /\ threads[t].pc # "panic"
       /\ (threads[t].pc = "FindRoute.chosen" /\ threads[t].id # 0) =>
             threads[t].id \in DOMAIN nics

\* C36, witness: FindRoute has remembered a route and has not looked its NIC
\* up yet, while another goroutine waits for s.mu to write the NIC map.
C36_Witness ==
    \E t, u \in Threads :
       /\ threads[t].pc = "FindRoute.chosen"
       /\ threads[t].id # 0
       /\ threads[u].fn \in {"RemoveNIC", "SetNICStack", "Wait"}
       /\ threads[u].want = "mu.Lock"

(***************************************************************************)
(* Properties of the endpoint cleanup next to Wait.                        *)
(***************************************************************************)
\* The endpoints whose cleanup has started and is not completed: a goroutine
\* is past the first half of StartTransportEndpointCleanup for them, or the
\* call has returned and CompleteTransportEndpointCleanup was not called.
InCleanup ==
    { e \in TransportEndpoints :
        \/ e \in cleanupEndpoints
        \/ \E t \in Threads : /\ threads[t].pc = "StartTransportEndpointCleanup.unregister"
                              /\ TheEp(threads[t].arg) = e }

\* The endpoints the Wait of goroutine th has called e.Wait() on.
Waited(th) == UNION { th.done[i].objs : i \in CallsOf(th.done, {"e.Wait"}) }

\* C37: a goroutine inside StartTransportEndpointCleanup finds its endpoint
\* registered or in the cleanup set at every instant, and in the cleanup set
\* from the end of the first half on; when Wait has read RegisteredEndpoints
\* and then CleanupEndpoints it has waited on every endpoint whose cleanup
\* has started and is not completed at the second read.
C37_CleanupSeen ==
    /\ [](\A t \in Threads :
             LET e == TheEp(threads[t].arg)
             IN  /\ threads[t].fn = "StartTransportEndpointCleanup" =>
                       e \in RegisteredEndpoints(demux) \cup cleanupEndpoints
                 /\ threads[t].pc = "StartTransportEndpointCleanup.unregister" =>
                       e \in cleanupEndpoints)
    /\ [][\A w \in Threads :
             (threads[w].pc = "Wait.cleanup" /\ threads'[w].pc = "Wait.loop") =>
                InCleanup \subseteq Waited(threads'[w])]_vars

\* C37, witness: Wait has read the registered endpoints without the endpoint,
\* which a goroutine has put into the cleanup set and is about to
\* unregister again, and has waited on it after the second read.
C37_Witness ==
    \E w, t \in Threads :
       /\ threads[w].pc = "Wait.loop"
       /\ threads[w].done[2].call = "e.Wait"
       /\ threads[t].pc = "StartTransportEndpointCleanup.unregister"
       /\ TheEp(threads[t].arg) \notin threads[w].done[2].objs
       /\ TheEp(threads[t].arg) \in Waited(threads[w])

(***************************************************************************)
(* Properties of the on-close action of a link endpoint.                   *)
(***************************************************************************)
\* C38: the RemoveNIC(id) that the on-close action of a link endpoint calls
\* takes from the NIC map only a nic that wraps the link endpoint being
\* closed.
C38_OwnNIC ==
    [][\A t \in Threads :
          (/\ threads[t].cb
           /\ threads[t].pc = "RemoveNIC"
           /\ threads'[t].pc # "RemoveNIC"
           /\ threads[t].id \in DOMAIN nics)
          => LinkEndpointOf(nics[threads[t].id]) \in threads[t].link]_vars

(***************************************************************************)
(* Properties of a NIC whose enable() fails or is not called.              *)
(***************************************************************************)
\* C39: a CreateNICWithOptions that passes the checks on id and name and
\* whose enable() fails returns the error of enable() with the nic stored:
\* HasNIC(id) holds, CheckNIC(id) does not, the on-close action of the link
\* endpoint is set, and every further CreateNICWithOptions with this id
\* returns ErrDuplicateNICID. With opts.Disabled the call returns nil without
\* calling enable() and CheckNIC(id) is false. A nic that is present and not
\* enabled becomes enabled only by an EnableNIC(id) that returns nil.
C39_EnableFails ==
    [][/\ last'.op = "CreateNICWithOptions" =>
             \A id \in NICIDs \cup {0}, opts \in EnableOptions, enableErr \in BOOLEAN :
                (/\ CreateNICWithOptions(id, EndpointOf(id), opts, enableErr)
                 /\ id # 0
                 /\ id \notin DOMAIN nics
                 /\ opts.Name = "" \/ \A i \in DOMAIN nics : nics[i].name # opts.Name) =>
                   /\ id \in DOMAIN nics'
                   /\ last'.ret >= 1
                   /\ \A again \in EnableOptions, e \in BOOLEAN :
                         createNICWithOptions(nics', id, EndpointOf(id), again, e).err
                            = "ErrDuplicateNICID"
                   /\ (~opts.Disabled /\ enableErr) =>
                         /\ last'.err = "ErrEnable"
                         /\ last'.ret = 2
                         /\ ~nics'[id].enabled
                   /\ opts.Disabled =>
                         /\ last'.err = "nil"
                         /\ last'.ret = 1
                         /\ ~nics'[id].enabled
       /\ \A id \in DOMAIN nics :
             (~nics[id].enabled /\ id \in DOMAIN nics' /\ nics'[id].enabled) =>
                /\ last'.op = "EnableNIC"
                /\ last'.id = id
                /\ last'.err = "nil"]_vars

\* C39, witness: CreateNICWithOptions has returned the error of enable() and
\* the nic is in the map, not enabled.
C39_Witness ==
    /\ last.op = "CreateNICWithOptions"
    /\ last.err = "ErrEnable"
    /\ HasNIC(last.id)
    /\ ~CheckNIC(last.id)

(***************************************************************************)
(* Properties of the calls that fail.                                      *)
(***************************************************************************)
\* C40: when SetNICStack(id, peer) has found the NIC and returns an error,
\* and when RemoveNIC(id) returns the error of the coordinator's DelNIC, the
\* NIC is in the NIC map as it was and the route table holds the routes
\* through it that it held.
C40_NotLost ==
    [][(/\ \/ last'.op = "SetNICStack" /\ last'.err \notin {"nil", "ErrUnknownNICID"}
           \/ last'.op = "RemoveNIC" /\ last'.err = "ErrCoordinator"
        /\ last'.id \in DOMAIN nics)
       => /\ last'.id \in DOMAIN nics'
          /\ nics'[last'.id] = nics[last'.id]
          /\ RoutesOfNIC(routeTable', last'.id) = RoutesOfNIC(routeTable, last'.id)]_vars

=============================================================================
